---- MODULE Spec2Model ----
(***************************************************************************)
(* tap-lightspeed-rseries: the OAuth token lifecycle                       *)
(* (LightspeedOAuthAuthenticator, auth.py) and the paginated fetch loop    *)
(* (dynamicsBcStream, example/client.py).                                  *)
(*                                                                         *)
(* Python values: a dict is a function whose DOMAIN is the set of keys it  *)
(* holds; an attribute that may be None is <<>> (None) or <<v>>.           *)
(* requests.post is taken to return a response (status, headers, body);    *)
(* the token endpoint answers 200 with a token document, 429, or a 4xx/5xx *)
(* error with a JSON error body.                                           *)
(***************************************************************************)
EXTENDS Integers, Sequences, FiniteSets, TLC

VARIABLES
    tapConfig,       \* self._tap._config, the tap's live config dict
    authConfig,      \* self.config, the authenticator's copy taken at construction
    configFile,      \* the JSON document at self._tap.config_file
    access_token,    \* self.access_token
    expires_in,      \* self.expires_in
    last_refreshed,  \* self.last_refreshed
    now,             \* the clock read by utc_now(), in seconds
    pc,              \* position inside update_access_token: idle, posted, final
    caller,          \* who called update_access_token: direct, request
    request_time,    \* request_time of the running refresh
    payload,         \* auth_request_payload["refresh_token"]
    posts,           \* the POSTs the token endpoint received in this refresh
    responses,       \* the responses it gave; the last one is token_response
    slept,           \* the time.sleep calls of this refresh, in order
    outcome,         \* how the last finished update_access_token ended
    refreshes,       \* update_access_token calls started
    completed,       \* update_access_token calls that returned normally
    reqPc,           \* position of the decorated resource request
    attempts,        \* the resource requests sent for it: token, status
    logged,          \* the values update_access_token put in its log lines
    script,          \* the pages the server answers with, in order
    pagePc,          \* position inside request_records
    next_page_token, \* next_page_token of request_records
    previous_token,  \* previous_token of request_records
    resp,            \* the response being processed
    row,             \* rows of resp already yielded
    emitted,         \* every row yielded so far
    pageRequests,    \* the token each request carried, in order
    vStream,         \* the stream whose validate_response runs
    vPc,             \* position of the sync of that stream over its parents
    vParent,         \* parents whose sync of that stream is over
    vLast,           \* the last response: parent, status, marker, what was raised
    vRows,           \* the rows that stream emitted: parent, row
    glPc,            \* position inside make_request of general_ledger_entries
    glPage,          \* the answer to the expanded page request
    gl_ids_resp,     \* body of the answer to the IDs-only request, as received
    gl_ids,          \* gl_ids of _handle_dimension_failure
    all_gls,         \* all_gls of _fetch_gl_entries_in_batches
    batch_i,         \* i of its loop over the batches
    glLog,           \* the requests the fallback sent through _call_api
    glResult,        \* body of the response make_request returned
    glRaised,        \* what make_request raised
    ddParent,        \* the general ledger stream whose records are processed
    ddSelected,      \* the streams selected in the catalog
    synced_doc_nos,  \* synced_doc_nos of that stream's class
    ddRecords,       \* its records processed so far: document number, company
    ddSyncs,         \* the child syncs started: child, document number, record
    ddObject,        \* the stream objects of the class constructed so far
    company_ids,     \* company_ids of the config: absent, or its text
    coPc,            \* position of the sync of companies
    coIndex,         \* company records processed
    coLast,          \* the last record: id, status of its probe, its context
    coProbes,        \* the probe requests sent: record, company id
    coChildRuns,     \* the child syncs started: record, child, context
    upStream,        \* the stream whose get_url_params ran last
    upStarting,      \* get_starting_timestamp(context) at that call
    upStartDate,     \* start_date of the config
    upToday,         \* datetime.date.today() at that call
    upPeriods,       \* report_periods of the config, or absent
    upParams,        \* the params it returned
    tap_state,       \* tap_state: the dict the bookmarks are kept in
    stBefore,        \* tap_state as it was when the last state message began
    stWritten,       \* the value of the last STATE message written
    durable,         \* what config_file holds on disk: its keys, and whether
                     \* the text is a complete JSON document
    wPc,             \* position inside lines 206-207
    wOld,            \* the document on disk before the refresh
    wNew,            \* _tap._config at line 206
    wDumped,         \* keys of it that reached the disk
    reqStream,       \* the stream whose request is being served
    served,          \* the streams served so far, in order
    instances,       \* the authenticators constructed, by key: their fields
    tkAid,           \* the aid of a continuation link
    tkSkip,          \* its $skiptoken
    tkToken,         \* the page token built from the link
    tkParams,        \* aid and $skiptoken of the request for the next page
    tplAuth,         \* TapDynamicsBCAuth: its fields, the tap's config, the file
    tplNow,          \* the clock of the template authenticator's run
    tplCalls,        \* calls of its update_access_token
    tplStamped,      \* calls that reached line 88
    tplBefore,       \* tplAuth when the last call began
    tplResp,         \* the token response of the last call
    tplOutcome,      \* what the last call raised
    tplCheck         \* the last is_token_valid: its result and what it saw

authVars == <<tapConfig, authConfig, configFile, access_token, expires_in,
              last_refreshed, now, pc, caller, request_time, payload, posts,
              responses, slept, outcome, refreshes, completed, reqPc, attempts,
              logged>>

pageVars == <<script, pagePc, next_page_token, previous_token, resp, row,
              emitted, pageRequests>>

classVars == <<vStream, vPc, vParent, vLast, vRows>>

glVars == <<glPc, glPage, gl_ids_resp, gl_ids, all_gls, batch_i, glLog,
            glResult, glRaised>>

dedupVars == <<ddParent, ddSelected, synced_doc_nos, ddRecords, ddSyncs, ddObject>>

companyVars == <<company_ids, coPc, coIndex, coLast, coProbes, coChildRuns>>

paramsVars == <<upStream, upStarting, upStartDate, upToday, upPeriods, upParams>>

stateVars == <<tap_state, stBefore, stWritten>>

writeVars == <<durable, wPc, wOld, wNew, wDumped>>

sharedVars == <<reqStream, served, instances>>

tokenVars == <<tkAid, tkSkip, tkToken, tkParams>>

templateVars == <<tplAuth, tplNow, tplCalls, tplStamped, tplBefore, tplResp,
                  tplOutcome, tplCheck>>

nonAuthVars == <<pageVars, classVars, glVars, dedupVars, companyVars,
                 paramsVars, stateVars, writeVars, sharedVars, tokenVars,
                 templateVars>>
nonPageVars == <<authVars, classVars, glVars, dedupVars, companyVars,
                 paramsVars, stateVars, writeVars, sharedVars, tokenVars,
                 templateVars>>
nonClassVars == <<authVars, pageVars, glVars, dedupVars, companyVars,
                  paramsVars, stateVars, writeVars, sharedVars, tokenVars,
                  templateVars>>
nonGlVars == <<authVars, pageVars, classVars, dedupVars, companyVars,
               paramsVars, stateVars, writeVars, sharedVars, tokenVars,
               templateVars>>
nonDedupVars == <<authVars, pageVars, classVars, glVars, companyVars,
                  paramsVars, stateVars, writeVars, sharedVars, tokenVars,
                  templateVars>>
nonCompanyVars == <<authVars, pageVars, classVars, glVars, dedupVars,
                    paramsVars, stateVars, writeVars, sharedVars, tokenVars,
                    templateVars>>
nonParamsVars == <<authVars, pageVars, classVars, glVars, dedupVars,
                   companyVars, stateVars, writeVars, sharedVars, tokenVars,
                   templateVars>>
nonStateVars == <<authVars, pageVars, classVars, glVars, dedupVars,
                  companyVars, paramsVars, writeVars, sharedVars, tokenVars,
                  templateVars>>
nonWriteVars == <<authVars, pageVars, classVars, glVars, dedupVars,
                  companyVars, paramsVars, stateVars, sharedVars, tokenVars,
                  templateVars>>
nonSharedVars == <<authVars, pageVars, classVars, glVars, dedupVars,
                   companyVars, paramsVars, stateVars, writeVars, tokenVars,
                   templateVars>>
nonTokenVars == <<authVars, pageVars, classVars, glVars, dedupVars,
                  companyVars, paramsVars, stateVars, writeVars, sharedVars,
                  templateVars>>
nonTemplateVars == <<authVars, pageVars, classVars, glVars, dedupVars,
                     companyVars, paramsVars, stateVars, writeVars,
                     sharedVars, tokenVars>>

vars == <<authVars, pageVars, classVars, glVars, dedupVars, companyVars,
          paramsVars, stateVars, writeVars, sharedVars, tokenVars,
          templateVars>>

\* ------------------------------------------------------------------ bounds

MaxRefreshes == 2
MaxAttempts == 3
MaxPages == 3
MaxPageRequests == 4
MaxParents == 2
MaxGlRecords == 3
MaxTemplateTime == 15
MaxValueLen == 2
MaxObjects == 2
MaxCompanies == 2
MaxServed == 3
MaxTextLen == 3

\* ------------------------------------------------------- program constants

DefaultExpiresIn == 3600
TemplateDefaultExpiresIn == 10
FallbackWait == 60
BatchSize == 200
DefaultReportPeriods == 3

\* ------------------------------------------------------------ Python values

None == <<>>
Some(v) == <<v>>
TruthyStr(x) == x # None /\ x[1] # ""
TruthyInt(x) == x # None /\ x[1] # 0

\* dict.get(key): None when the key is missing
Get(d, k) == IF k \in DOMAIN d THEN Some(d[k]) ELSE None

\* d[key] = value
Put(d, k, v) == [x \in DOMAIN d \cup {k} |-> IF x = k THEN v ELSE d[x]]

Max(a, b) == IF a >= b THEN a ELSE b

\* -------------------------------------------------------- the token endpoint

AccessTokens == {"a1", "a2"}
RefreshTokens == {"r1", "r2"}
ExpiresInValues == {Some(0), Some(10)}
DelaySeconds == {5}

\* seconds a POST may take, and how far from the server's clock the date of a
\* Retry-After header may lie
Latencies == {0, 1}
Skews == {0 - 1, 0, 1}

\* a token document: refresh_token and expires_in are optional keys
TokenJson(a, r, e) ==
    [k \in {"access_token"}
           \cup (IF r = {} THEN {} ELSE {"refresh_token"})
           \cup (IF e = {} THEN {} ELSE {"expires_in"}) |->
        CASE k = "access_token" -> a
          [] k = "refresh_token" -> CHOOSE x \in r : TRUE
          [] k = "expires_in" -> CHOOSE x \in e : TRUE]

TokenBodies ==
    {TokenJson(a, r, e) :
        a \in AccessTokens,
        r \in {{}} \cup {{x} : x \in RefreshTokens},
        e \in {{}} \cup {{x} : x \in ExpiresInValues}}

\* Retry-After as the server may send it at time t: no header, a number of
\* seconds (text that is no date), an HTTP date (GMT), a date with zone -0000
NoHeader == [kind |-> "absent", val |-> 0]

RetryAfterHeaders(t) ==
    {NoHeader}
    \cup {[kind |-> "seconds", val |-> s] : s \in DelaySeconds}
    \cup {[kind |-> "date", val |-> Max(0, t + d)] : d \in Skews}
    \cup {[kind |-> "naive", val |-> t + 1]}

\* the answers the endpoint may give at time t; at is the clock when the
\* response arrives, which is when line 116 reads it
TokenResponses(t) ==
    {[status |-> 200, at |-> t, retry_after |-> NoHeader, body |-> b] :
            b \in TokenBodies \cup {[token_type |-> "bearer"]}}
    \cup {[status |-> 429, at |-> t, retry_after |-> h, body |-> [error |-> "rate_limited"]] :
            h \in RetryAfterHeaders(t)}
    \cup {[status |-> 400, at |-> t, retry_after |-> NoHeader,
           body |-> [error |-> "invalid_grant"]],
          [status |-> 500, at |-> t, retry_after |-> NoHeader,
           body |-> [error |-> "server_error"]]}

\* ------------------------------------------------------------ the authenticator

\* email.utils.parsedate_to_datetime: a date, or ValueError
parsedate_to_datetime(h) ==
    IF h.kind \in {"date", "naive"}
    THEN [ok |-> TRUE, aware |-> h.kind = "date", t |-> h.val]
    ELSE [ok |-> FALSE, aware |-> FALSE, t |-> 0]

\* the 429 branch: what is slept and whether the POST is issued again, for the
\* header h read at clock t
Wait60 == [sleep |-> Some(FallbackWait), retry |-> TRUE]

\* variants of rate_limit_plan: one wait for every header; a number of
\* seconds honoured as a delay
rate_limit_plan_fixed(h, t) == Wait60

rate_limit_plan_seconds(h, t) ==
    IF h.kind = "absent" THEN Wait60
    ELSE IF h.kind = "seconds" THEN [sleep |-> Some(h.val), retry |-> TRUE]
    ELSE IF h.kind = "date" /\ h.val - t > 0 THEN [sleep |-> Some(h.val - t), retry |-> TRUE]
    ELSE IF h.kind = "date" THEN [sleep |-> None, retry |-> FALSE]
    ELSE Wait60

rate_limit_plan(h, t) ==
    IF h.kind = "absent" THEN Wait60
    ELSE LET d == parsedate_to_datetime(h) IN
         IF ~d.ok THEN Wait60                       \* except Exception
         ELSE IF ~d.aware THEN Wait60               \* naive - aware: TypeError
         ELSE IF d.t - t > 0 THEN [sleep |-> Some(d.t - t), retry |-> TRUE]
         ELSE [sleep |-> None, retry |-> FALSE]

\* variant: the refresh_token of the copy taken at construction
cached_refresh_token == Get(authConfig, "refresh_token")

\* the refresh_token put in the payload
current_refresh_token == Get(tapConfig, "refresh_token")

\* variant: only server errors raise
raise_for_status_5xx(r) == 500 <= r.status /\ r.status < 600

\* Response.raise_for_status raises for 400..599
raise_for_status(r) == 400 <= r.status /\ r.status < 600

token_response == responses[Len(responses)]

\* variant: a token is valid until its expiry
is_token_valid_by_expiry ==
    /\ last_refreshed # None
    /\ \/ ~TruthyInt(expires_in)
       \/ expires_in[1] > now - last_refreshed[1]

\* is_token_valid: its result, and self.access_token after the call
is_token_valid ==
    IF ~TruthyStr(access_token)
    THEN "access_token" \in DOMAIN authConfig
    ELSE TRUE

access_token_after_valid ==
    IF ~TruthyStr(access_token) /\ "access_token" \in DOMAIN authConfig
    THEN Some(authConfig["access_token"])
    ELSE access_token

\* -------------------------------------------------------- resource responses

ResourceStatuses == {200, 400, 401, 404, 429, 500}

\* variant: the retriable 400 is not looked for
validate_response_no_marker(status, tryAgain) ==
    IF status = 401 THEN "RetriableAPIError"
    ELSE IF 400 <= status /\ status < 500 THEN "FatalAPIError"
    ELSE IF 500 <= status /\ status < 600 THEN "RetriableAPIError"
    ELSE "ok"

\* validate_response: what it raises for a status and a body that holds, or
\* not, the text "Please try again later."
validate_response(status, tryAgain) ==
    IF status \in {401} THEN "RetriableAPIError"
    ELSE IF status = 400 /\ tryAgain THEN "RetriableAPIError"
    ELSE IF 400 <= status /\ status < 500 THEN "FatalAPIError"
    ELSE IF (500 <= status /\ status < 600) \/ status \in {401} THEN "RetriableAPIError"
    ELSE "ok"

\* ------------------------------------------------------------------ Init

InitialConfigs ==
    {[k \in a \cup r |-> IF k = "access_token" THEN at ELSE "r0"] :
        a \in {{}, {"access_token"}},
        r \in {{}, {"refresh_token"}},
        at \in {"", "a0"}}

\* the state once the authenticator is constructed from the loaded config
AuthStart ==
    /\ tapConfig \in InitialConfigs
    /\ authConfig = tapConfig
    /\ configFile = tapConfig
    /\ access_token = Get(tapConfig, "access_token")
    /\ expires_in = None
    /\ last_refreshed = None
    /\ now = 0
    /\ pc = "idle"
    /\ caller = "direct"
    /\ request_time = 0
    /\ payload = None
    /\ posts = <<>>
    /\ responses = <<>>
    /\ slept = <<>>
    /\ logged = <<>>
    /\ outcome = [kind |-> "none", error |-> ""]
    /\ refreshes = 0
    /\ completed = 0
    /\ reqPc = "idle"
    /\ attempts = <<>>

\* ----------------------------------------------------------- pagination

\* text is a sequence of symbols; "aid=" and "$skiptoken=" are one symbol each
AidValues == {<<>>, <<"x">>}
SkipValues == {<<>>, <<"s">>, <<"t">>}

\* the body's @odata.nextLink: None, or a link whose query holds aid and
\* $skiptoken (a blank value is a parameter that is missing or empty)
Links == {None} \cup {Some([aid |-> a, skiptoken |-> k]) : a \in AidValues, k \in SkipValues}
Rows == {<<>>, <<1>>, <<2, 1>>}
Pages == [value : Rows, nextLink : Links]

Scripts == UNION {[1 .. n -> Pages] : n \in 1 .. MaxPages}

\* the server's answer to the n-th request; past its end the script starts over
ServerPage(n) == script[((n - 1) % Len(script)) + 1]

\* variant: the token is built from $skiptoken alone
get_next_page_token_skip_only(response) ==
    IF response.nextLink = None THEN None
    ELSE LET skiptoken_value == response.nextLink[1].skiptoken
         IN  IF skiptoken_value # <<>>
             THEN Some(<<"&", "$skiptoken=">> \o skiptoken_value)
             ELSE None

\* variant: one of the two parameters is enough for a token
get_next_page_token_either(response) ==
    IF response.nextLink = None THEN None
    ELSE LET aid_value == response.nextLink[1].aid
             skiptoken_value == response.nextLink[1].skiptoken
         IN  IF aid_value # <<>> \/ skiptoken_value # <<>>
             THEN Some(<<"&", "aid=">> \o aid_value \o <<"&", "$skiptoken=">> \o skiptoken_value)
             ELSE None

\* get_next_page_token: parse_qs drops blank values
get_next_page_token(response) ==
    IF response.nextLink = None THEN None
    ELSE LET aid_value == response.nextLink[1].aid
             skiptoken_value == response.nextLink[1].skiptoken
         IN  IF aid_value # <<>> /\ skiptoken_value # <<>>
             THEN Some(<<"&", "aid=">> \o aid_value \o <<"&", "$skiptoken=">> \o skiptoken_value)
             ELSE None

\* str.split(sep): the pieces between the occurrences of the symbol sep
RECURSIVE split_on(_, _)
split_on(s, sep) ==
    IF \A k \in DOMAIN s : s[k] # sep
    THEN <<s>>
    ELSE LET c == CHOOSE k \in DOMAIN s : s[k] = sep /\ \A j \in 1 .. k - 1 : s[j] # sep
         IN  <<SubSeq(s, 1, c - 1)>> \o split_on(SubSeq(s, c + 1, Len(s)), sep)

\* get_url_params, lines 120-122: aid and $skiptoken out of the page token
page_token_params(token) ==
    LET after_aid == split_on(token, "aid=")
        after_skip == split_on(token, "$skiptoken=")
    IN  [aid |-> split_on(after_aid[Len(after_aid)], "&")[1],
         skiptoken |-> after_skip[Len(after_skip)]]

\* the values of a query parameter as parse_qs gives them: decoded, not
\* empty, of any characters
QuerySymbols == {"x", "&", "aid=", "$skiptoken="}
QueryValues == UNION {[1 .. n -> QuerySymbols] : n \in 1 .. MaxValueLen}

\* no continuation link is looked at
TokenIdle ==
    /\ tkAid = None
    /\ tkSkip = None
    /\ tkToken = None
    /\ tkParams = None

\* a page ends with a continuation link: get_next_page_token builds the
\* token, get_url_params of the next request takes it apart
next_page_params ==
    /\ tkToken = None
    /\ \E a \in QueryValues, s \in QueryValues :
         LET token == get_next_page_token([value |-> <<>>,
                                           nextLink |-> Some([aid |-> a, skiptoken |-> s])])
         IN  /\ tkAid' = Some(a)
             /\ tkSkip' = Some(s)
             /\ tkToken' = token
             /\ tkParams' = Some(page_token_params(token[1]))
    /\ UNCHANGED nonTokenVars

NextToken == next_page_params

\* variant: no loop check
loop_detected_never(token, previous) == FALSE

\* lines 145-149: the loop check of request_records
loop_detected(token, previous) == token # None /\ token = previous

PageStart ==
    /\ script \in Scripts
    /\ pagePc = "request"
    /\ next_page_token = None
    /\ previous_token = None
    /\ resp = None
    /\ row = 0
    /\ emitted = <<>>
    /\ pageRequests = <<>>

\* request_records is not running
PageIdle ==
    /\ script = <<>>
    /\ pagePc = "done"
    /\ next_page_token = None
    /\ previous_token = None
    /\ resp = None
    /\ row = 0
    /\ emitted = <<>>
    /\ pageRequests = <<>>

\* line 138: resp = decorated_request(context, next_page_token)
request_page ==
    /\ pagePc = "request"
    /\ Len(pageRequests) < MaxPageRequests
    /\ pageRequests' = Append(pageRequests, next_page_token)
    /\ resp' = Some(ServerPage(Len(pageRequests')))
    /\ row' = 0
    /\ pagePc' = "yield"
    /\ UNCHANGED <<script, next_page_token, previous_token, emitted, nonPageVars>>

\* lines 139-140: yield the next row of the page
yield_row ==
    /\ pagePc = "yield"
    /\ row < Len(resp[1].value)
    /\ row' = row + 1
    /\ emitted' = Append(emitted, resp[1].value[row'])
    /\ UNCHANGED <<script, pagePc, next_page_token, previous_token, resp,
                   pageRequests, nonPageVars>>

\* variant: the loop check comes before the rows of the page
advance_page_before_rows ==
    /\ pagePc = "yield"
    /\ row = 0
    /\ previous_token' = next_page_token
    /\ next_page_token' = get_next_page_token(resp[1])
    /\ pagePc' = IF loop_detected(next_page_token', previous_token') THEN "error"
                 ELSE IF next_page_token' = None THEN "done"
                 ELSE "request"
    /\ UNCHANGED <<script, resp, row, emitted, pageRequests, nonPageVars>>

\* lines 141-151: the next token, the loop check, the end of the loop
advance_page ==
    /\ pagePc = "yield"
    /\ row = Len(resp[1].value)
    /\ previous_token' = next_page_token
    /\ next_page_token' = get_next_page_token(resp[1])
    /\ pagePc' = IF loop_detected(next_page_token', previous_token') THEN "error"
                 ELSE IF next_page_token' = None THEN "done"
                 ELSE "request"
    /\ UNCHANGED <<script, resp, row, emitted, pageRequests, nonPageVars>>

NextPage ==
    \/ request_page
    \/ yield_row
    \/ advance_page

\* ------------------------------------- validate_response in a stream's sync

StatusCodes == 100 .. 599
Streams == {"general_ledger_entries", "gl_entries_dimensions"}

\* GLEntriesDimensionsStream.validate_response; isJson: the body parses as a
\* JSON document.  Line 913 builds its log message from response.json(),
\* which raises on a body that does not parse (an empty body, an HTML page)
validate_response_dimensions(status, tryAgain, isJson) ==
    IF status = 404
    THEN IF isJson THEN "ok" ELSE "JSONDecodeError"
    ELSE validate_response(status, tryAgain)

\* the validate_response the stream's class resolves to
stream_validate_response(stream, status, tryAgain, isJson) ==
    IF stream = "gl_entries_dimensions"
    THEN validate_response_dimensions(status, tryAgain, isJson)
    ELSE validate_response(status, tryAgain)

\* parse_response: the rows at $.value[*]; only a 2xx body holds a value field
BodyRows(status) == IF 200 <= status /\ status < 300 THEN {<<>>, <<1>>, <<2, 1>>} ELSE {<<>>}

NoResponse ==
    [parent |-> 0, status |-> 0, tryAgain |-> FALSE, isJson |-> TRUE, raised |-> "none"]

ClassStart ==
    /\ vStream \in Streams
    /\ vPc = "request"
    /\ vParent = 0
    /\ vLast = NoResponse
    /\ vRows = <<>>

\* no stream is being synced
ClassIdle ==
    /\ vStream = "general_ledger_entries"
    /\ vPc = "done"
    /\ vParent = 0
    /\ vLast = NoResponse
    /\ vRows = <<>>

RECURSIVE Tagged(_, _)
Tagged(parent, rows) ==
    IF rows = <<>> THEN <<>>
    ELSE <<[parent |-> parent, row |-> Head(rows)]>> \o Tagged(parent, Tail(rows))

\* the stream's request for the next parent: _request sends it and calls
\* validate_response; a RetriableAPIError makes the decorator send it again,
\* any other exception ends the sync, otherwise the rows are emitted and the
\* traversal of the parents goes on
sync_child ==
    /\ vPc = "request"
    /\ \E status \in StatusCodes, tryAgain \in BOOLEAN, isJson \in BOOLEAN :
         /\ tryAgain => status = 400
         /\ ~isJson => status >= 400
         /\ LET raised == stream_validate_response(vStream, status, tryAgain, isJson) IN
            /\ vLast' = [parent |-> vParent + 1, status |-> status,
                         tryAgain |-> tryAgain, isJson |-> isJson, raised |-> raised]
            /\ IF raised = "ok"
               THEN /\ \E rows \in BodyRows(status) :
                         vRows' = vRows \o Tagged(vParent + 1, rows)
                    /\ vParent' = vParent + 1
                    /\ vPc' = IF vParent' = MaxParents THEN "done" ELSE "request"
               ELSE /\ vPc' = IF raised = "RetriableAPIError" THEN "request" ELSE "aborted"
                    /\ UNCHANGED <<vParent, vRows>>
    /\ UNCHANGED <<vStream, nonClassVars>>

NextClass == sync_child

\* ------------------------ the batch fallback of general_ledger_entries

\* how many entries the page holds
IdCounts == {0, 1, 2, 199, 200, 201, 400, 401}

Min(a, b) == IF a <= b THEN a ELSE b
Range(f) == {f[k] : k \in DOMAIN f}

\* the id of the k-th general ledger entry in the server's order
GlId(k) == 1000 + ((k * 7) % 409)

\* the server's collection: one entry more than the largest page
ServerIds ==
    LET largest == CHOOSE m \in IdCounts : \A x \in IdCounts : x <= m
    IN  [k \in 1 .. largest + 1 |-> GlId(k)]

\* the dimension set lines the server holds for an entry; an entry may have none
ServerDims(id) == IF id % 3 = 0 THEN <<>> ELSE <<"DEPARTMENT">>

\* the server's answer to $filter=id eq X1 or id eq X2 ...: the ids of the
\* entries that match, in the server's order
ServerQuery(filter_clause) ==
    SelectSeq(ServerIds, LAMBDA x : x \in Range(filter_clause))

\* the answer to the IDs-only request for a page of n entries
IdsBody(n, link) ==
    [context |-> "generalLedgerEntries",
     value |-> [k \in 1 .. n |-> [id |-> GlId(k)]],
     nextLink |-> link]

\* a request sent through _call_api: what it asks for, the ids of its filter
\* (the id of its path for one entry's lines) and whether it was answered
Call(kind, ids, ok) == [kind |-> kind, ids |-> ids, ok |-> ok]

\* variant: any fatal error of the page request starts the fallback
enters_fallback_on_any_fatal(raised, dimMarker) == raised = "FatalAPIError"

\* lines 773-777: except FatalAPIError with the marker in its message
enters_fallback(raised, dimMarker) == raised = "FatalAPIError" /\ dimMarker

\* variant: the slice holds one id less
batch_short(ids, i) == SubSeq(ids, i + 1, Min(i + BatchSize - 1, Len(ids)))

\* line 805: gl_ids[i:i+batch_size]
batch(ids, i) == SubSeq(ids, i + 1, Min(i + BatchSize, Len(ids)))

\* variant: the batch takes the place of what was gathered
extend_overwrite(gls, batch_entries) == batch_entries

\* line 807: all_gls.extend(batch_entries)
extend(gls, batch_entries) == gls \o batch_entries

\* _fetch_individual_dimensions: the lines of one entry, [] when the request
\* fails
fetch_individual_dimensions(id, ok) == IF ok THEN ServerDims(id) ELSE <<>>

\* variant: a failed request for one entry's lines ends the batch with nothing
fetch_batch_without_dimensions_all_or_nothing(batch_ids, plainOk, failing) ==
    IF ~plainOk
    THEN [raised |-> FALSE, entries |-> <<>>, log |-> <<Call("plain", batch_ids, FALSE)>>]
    ELSE LET gl_entries == ServerQuery(batch_ids)
             first == IF \E k \in DOMAIN gl_entries : gl_entries[k] \in failing
                      THEN CHOOSE k \in DOMAIN gl_entries :
                               /\ gl_entries[k] \in failing
                               /\ \A j \in 1 .. k - 1 : gl_entries[j] \notin failing
                      ELSE Len(gl_entries)
         IN  [raised |-> FALSE,
              entries |-> IF \E k \in DOMAIN gl_entries : gl_entries[k] \in failing
                          THEN <<>>
                          ELSE [k \in DOMAIN gl_entries |->
                                   [id |-> gl_entries[k],
                                    dimensionSetLines |-> ServerDims(gl_entries[k])]],
              log |-> <<Call("plain", batch_ids, TRUE)>> \o
                      [k \in 1 .. first |->
                          Call("dimensionSetLines", <<gl_entries[k]>>,
                               gl_entries[k] \notin failing)]]

\* variant: a failed request without the expansion leaves the bare ids
fetch_batch_without_dimensions_keeping_ids(batch_ids, plainOk, failing) ==
    IF ~plainOk
    THEN [raised |-> FALSE,
          entries |-> [k \in DOMAIN batch_ids |->
                          [id |-> batch_ids[k], dimensionSetLines |-> <<>>]],
          log |-> <<Call("plain", batch_ids, FALSE)>>]
    ELSE LET gl_entries == ServerQuery(batch_ids)
         IN  [raised |-> FALSE,
              entries |-> [k \in DOMAIN gl_entries |->
                              [id |-> gl_entries[k],
                               dimensionSetLines |->
                                   fetch_individual_dimensions(gl_entries[k],
                                                               gl_entries[k] \notin failing)]],
              log |-> <<Call("plain", batch_ids, TRUE)>> \o
                      [k \in DOMAIN gl_entries |->
                          Call("dimensionSetLines", <<gl_entries[k]>>,
                               gl_entries[k] \notin failing)]]

\* variant: a failed request without the expansion is raised
fetch_batch_without_dimensions_raising(batch_ids, plainOk, failing) ==
    IF ~plainOk
    THEN [raised |-> TRUE, entries |-> <<>>, log |-> <<Call("plain", batch_ids, FALSE)>>]
    ELSE LET gl_entries == ServerQuery(batch_ids)
         IN  [raised |-> FALSE,
              entries |-> [k \in DOMAIN gl_entries |->
                              [id |-> gl_entries[k],
                               dimensionSetLines |->
                                   fetch_individual_dimensions(gl_entries[k],
                                                               gl_entries[k] \notin failing)]],
              log |-> <<Call("plain", batch_ids, TRUE)>> \o
                      [k \in DOMAIN gl_entries |->
                          Call("dimensionSetLines", <<gl_entries[k]>>,
                               gl_entries[k] \notin failing)]]

\* _fetch_batch_without_dimensions: the batch without $expand, then the lines
\* of each entry on their own; [] when the request for the batch fails.
\* failing: the entries whose request for their lines fails
fetch_batch_without_dimensions(batch_ids, plainOk, failing) ==
    IF ~plainOk
    THEN [raised |-> FALSE, entries |-> <<>>, log |-> <<Call("plain", batch_ids, FALSE)>>]
    ELSE LET gl_entries == ServerQuery(batch_ids)
         IN  [raised |-> FALSE,
              entries |-> [k \in DOMAIN gl_entries |->
                              [id |-> gl_entries[k],
                               dimensionSetLines |->
                                   fetch_individual_dimensions(gl_entries[k],
                                                               gl_entries[k] \notin failing)]],
              log |-> <<Call("plain", batch_ids, TRUE)>> \o
                      [k \in DOMAIN gl_entries |->
                          Call("dimensionSetLines", <<gl_entries[k]>>,
                               gl_entries[k] \notin failing)]]

\* _fetch_batch_with_dimensions: the batch with $expand=dimensionSetLines,
\* and on any exception the batch without it
fetch_batch_with_dimensions(batch_ids, expandedOk, plainOk, failing) ==
    IF expandedOk
    THEN LET gl_entries == ServerQuery(batch_ids)
         IN  [raised |-> FALSE,
              entries |-> [k \in DOMAIN gl_entries |->
                              [id |-> gl_entries[k],
                               dimensionSetLines |-> ServerDims(gl_entries[k])]],
              log |-> <<Call("expanded", batch_ids, TRUE)>>]
    ELSE LET r == fetch_batch_without_dimensions(batch_ids, plainOk, failing)
         IN  [r EXCEPT !.log = <<Call("expanded", batch_ids, FALSE)>> \o r.log]

\* variant: the body is built anew around the entries
create_enriched_response_fresh(original_response, enriched_data) ==
    [context |-> original_response.context,
     value |-> enriched_data,
     nextLink |-> None]

\* _create_enriched_response: data = original_response.json();
\* data["value"] = enriched_data
create_enriched_response(original_response, enriched_data) ==
    [original_response EXCEPT !.value = enriched_data]

NoPage == [status |-> 0, tryAgain |-> FALSE, dimMarker |-> FALSE, raised |-> "none"]

GlStart ==
    /\ glPc = "request"
    /\ glPage = NoPage
    /\ gl_ids_resp = None
    /\ gl_ids = <<>>
    /\ all_gls = <<>>
    /\ batch_i = 0
    /\ glLog = <<>>
    /\ glResult = None
    /\ glRaised = "none"

\* make_request is not running
GlIdle ==
    /\ glPc = "idle"
    /\ glPage = NoPage
    /\ gl_ids_resp = None
    /\ gl_ids = <<>>
    /\ all_gls = <<>>
    /\ batch_i = 0
    /\ glLog = <<>>
    /\ glResult = None
    /\ glRaised = "none"

\* make_request, lines 768-779: the expanded page request and what becomes of
\* its error.  The markers are texts of an error body.  A RetriableAPIError
\* leaves make_request; the request decorator calls make_request again
make_request ==
    /\ glPc = "request"
    /\ \E status \in ResourceStatuses, tryAgain \in BOOLEAN, dimMarker \in BOOLEAN :
         LET raised == validate_response(status, tryAgain) IN
         /\ tryAgain \/ dimMarker => status >= 400
         /\ glPage' = [status |-> status, tryAgain |-> tryAgain,
                       dimMarker |-> dimMarker, raised |-> raised]
         /\ IF raised = "ok"
            THEN /\ \E link \in Links : glResult' = Some(IdsBody(0, link))
                 /\ glPc' = "returned"
                 /\ UNCHANGED glRaised
            ELSE IF enters_fallback(raised, dimMarker)
            THEN /\ glPc' = "ids"
                 /\ UNCHANGED <<glResult, glRaised>>
            ELSE IF raised = "FatalAPIError"
            THEN /\ glPc' = "raised"
                 /\ glRaised' = "FatalAPIError of the page request"
                 /\ UNCHANGED glResult
            ELSE /\ glPc' = "request"
                 /\ UNCHANGED <<glResult, glRaised>>
    /\ UNCHANGED <<gl_ids_resp, gl_ids, all_gls, batch_i, glLog, nonGlVars>>

\* _handle_dimension_failure, lines 788-790: the IDs-only request; its
\* exception leaves _handle_dimension_failure and make_request
fetch_gl_ids ==
    /\ glPc = "ids"
    /\ \E idsOk \in BOOLEAN :
         /\ glLog' = Append(glLog, Call("select=id", <<>>, idsOk))
         /\ IF idsOk
            THEN /\ \E n \in IdCounts, link \in Links :
                      /\ gl_ids_resp' = Some(IdsBody(n, link))
                      /\ gl_ids' = [k \in 1 .. n |-> IdsBody(n, link).value[k].id]
                 /\ all_gls' = <<>>
                 /\ batch_i' = 0
                 /\ glPc' = "batches"
                 /\ UNCHANGED glRaised
            ELSE /\ glPc' = "raised"
                 /\ glRaised' = "error of the IDs-only request"
                 /\ UNCHANGED <<gl_ids_resp, gl_ids, all_gls, batch_i>>
    /\ UNCHANGED <<glPage, glResult, nonGlVars>>

\* one turn of the loop of _fetch_gl_entries_in_batches, lines 804-807
fetch_batch ==
    /\ glPc = "batches"
    /\ batch_i < Len(gl_ids)
    /\ LET batch_ids == batch(gl_ids, batch_i) IN
       \E expandedOk \in BOOLEAN, plainOk \in BOOLEAN,
          failing \in SUBSET {batch_ids[1], batch_ids[Len(batch_ids)]} :
         LET r == fetch_batch_with_dimensions(batch_ids, expandedOk, plainOk, failing) IN
         /\ expandedOk => plainOk /\ failing = {}
         /\ ~plainOk => failing = {}
         /\ glLog' = glLog \o r.log
         /\ IF r.raised
            THEN /\ glPc' = "raised"
                 /\ glRaised' = "error of a batch request"
                 /\ UNCHANGED <<all_gls, batch_i>>
            ELSE /\ all_gls' = extend(all_gls, r.entries)
                 /\ batch_i' = batch_i + BatchSize
                 /\ UNCHANGED <<glPc, glRaised>>
    /\ UNCHANGED <<glPage, gl_ids_resp, gl_ids, glResult, nonGlVars>>

\* the loop is over, line 793: return _create_enriched_response(...)
return_enriched ==
    /\ glPc = "batches"
    /\ batch_i >= Len(gl_ids)
    /\ glResult' = Some(create_enriched_response(gl_ids_resp[1], all_gls))
    /\ glPc' = "returned"
    /\ UNCHANGED <<glPage, gl_ids_resp, gl_ids, all_gls, batch_i, glLog, glRaised,
                   nonGlVars>>

NextGl ==
    \/ make_request
    \/ fetch_gl_ids
    \/ fetch_batch
    \/ return_enriched

\* ------------------------- _sync_children of the general ledger streams

DocNos == {"D1", "D2"}
GlCompanies == {"c1", "c2"}
GlParents == {"general_ledger_entries", "general_ledger_entries_incremental"}
GlChildren == {"gl_entries_dimensions", "vendor_ledger_entries"}

\* child_streams of a parent: the streams whose parent_stream_type is the
\* parent's class
child_streams(parent) ==
    IF parent = "general_ledger_entries" THEN <<"gl_entries_dimensions">>
    ELSE <<"vendor_ledger_entries">>

\* variant: the company is part of what is looked up
dedup_key_with_company(context) == <<context.company_id, context.gl_doc_no>>

\* lines 868 and 871: what is looked up in, and added to, synced_doc_nos
dedup_key(context) == context.gl_doc_no

\* variant: every child is skipped for a document number seen
should_not_sync_any_child(child, doc, synced) == doc \in synced

\* variant: the document numbers seen are not looked at
should_not_sync_never(child, doc, synced) == FALSE

\* line 868
should_not_sync(child, doc, synced) ==
    child = "vendor_ledger_entries" /\ doc \in synced

\* lines 866-871: the loop over the child streams for one record; what it
\* leaves in synced_doc_nos and the syncs it starts, in order
RECURSIVE sync_children_loop(_, _, _, _, _)
sync_children_loop(children, selected, doc, synced, syncs) ==
    IF children = <<>> THEN [synced |-> synced, syncs |-> syncs]
    ELSE LET child == Head(children) IN
         IF child \in selected /\ ~should_not_sync(child, doc, synced)
         THEN sync_children_loop(Tail(children), selected, doc,
                                 synced \cup {doc}, Append(syncs, child))
         ELSE sync_children_loop(Tail(children), selected, doc, synced, syncs)

DedupStart ==
    /\ ddParent \in GlParents
    /\ ddSelected \in SUBSET GlChildren
    /\ synced_doc_nos = {}
    /\ ddRecords = <<>>
    /\ ddSyncs = <<>>
    /\ ddObject = 1

\* no general ledger stream is being synced
DedupIdle ==
    /\ ddParent = "general_ledger_entries"
    /\ ddSelected = {}
    /\ synced_doc_nos = {}
    /\ ddRecords = <<>>
    /\ ddSyncs = <<>>
    /\ ddObject = 1

\* _sync_children for the next record of the parent
sync_children ==
    /\ Len(ddRecords) < MaxGlRecords
    /\ \E doc \in DocNos, company \in GlCompanies :
         LET child_context == [gl_doc_no |-> doc, company_id |-> company]
             r == sync_children_loop(child_streams(ddParent), ddSelected,
                                     dedup_key(child_context), synced_doc_nos, <<>>)
         IN  /\ ddRecords' = Append(ddRecords, [gl_doc_no |-> doc, company_id |-> company,
                                                object |-> ddObject])
             /\ synced_doc_nos' = r.synced
             /\ ddSyncs' = ddSyncs \o
                    [k \in 1 .. Len(r.syncs) |->
                        [child |-> r.syncs[k], gl_doc_no |-> doc,
                         record |-> Len(ddRecords')]]
    /\ UNCHANGED <<ddParent, ddSelected, ddObject, nonDedupVars>>

\* another stream object of the class is constructed in the process and
\* synced from here on; synced_doc_nos, lines 676 and 881, is an attribute of
\* the class, which __init__ does not set
construct_stream ==
    /\ ddObject < MaxObjects
    /\ ddObject' = ddObject + 1
    /\ UNCHANGED <<ddParent, ddSelected, synced_doc_nos, ddRecords, ddSyncs,
                   nonDedupVars>>

NextDedup == sync_children

\* the stream objects of one class in one process
NextRuns ==
    \/ sync_children
    \/ construct_stream

\* ------------------------------ CompaniesStream: the contexts of its children

\* texts are sequences of characters
Chars == {"A", "B", " ", ","}
Texts == UNION {[1 .. n -> Chars] : n \in 0 .. MaxTextLen}
CompanyRecordIds == {<<"A">>, <<"B">>, <<"A", "B">>}
CompanyChildren == <<"company_information", "general_ledger_entries">>

\* str.split(","): the pieces between the commas
RECURSIVE split(_)
split(s) ==
    IF \A k \in DOMAIN s : s[k] # ","
    THEN <<s>>
    ELSE LET c == CHOOSE k \in DOMAIN s : s[k] = "," /\ \A j \in 1 .. k - 1 : s[j] # ","
         IN  <<SubSeq(s, 1, c - 1)>> \o split(SubSeq(s, c + 1, Len(s)))

\* str.strip(): without the white space at both ends
RECURSIVE strip(_)
strip(s) ==
    IF s = <<>> THEN s
    ELSE IF Head(s) = " " THEN strip(Tail(s))
    ELSE IF s[Len(s)] = " " THEN strip(SubSeq(s, 1, Len(s) - 1))
    ELSE s

\* variant: the pieces are taken as they are
company_id_list_unstripped(text) ==
    SelectSeq(split(text), LAMBDA x : strip(x) # <<>>)

\* line 42: [id.strip() for id in company_ids.split(",") if id.strip()]
company_id_list(text) ==
    LET pieces == split(text)
        stripped == [k \in DOMAIN pieces |-> strip(pieces[k])]
    IN  SelectSeq(stripped, LAMBDA x : x # <<>>)

\* lines 38-47: the record is skipped by the company_ids filter
skipped_by_filter(id, ids) ==
    /\ ids # None
    /\ ids[1] # <<>>
    /\ id \notin Range(company_id_list(ids[1]))

\* variant: the children are synced whatever the context
has_child_context_always(context) == TRUE

\* CompaniesStream._sync_children: if child_context is not None
has_child_context(context) == context # None

NoCompany == [index |-> 0, id |-> <<>>, probed |-> FALSE, raised |-> "none", context |-> None]

CompanyStart ==
    /\ company_ids \in {None} \cup {Some(t) : t \in Texts}
    /\ coPc = "sync"
    /\ coIndex = 0
    /\ coLast = NoCompany
    /\ coProbes = <<>>
    /\ coChildRuns = <<>>

\* the companies stream is not being synced
CompanyIdle ==
    /\ company_ids = None
    /\ coPc = "done"
    /\ coIndex = 0
    /\ coLast = NoCompany
    /\ coProbes = <<>>
    /\ coChildRuns = <<>>

\* the next record of companies: get_child_context, lines 35-74, then
\* _sync_children, lines 76-78.  status is the last answer to the probe,
\* after the retries of the request decorator; a FatalAPIError is caught and
\* leaves no context, a RetriableAPIError leaves get_child_context
sync_company ==
    /\ coPc = "sync"
    /\ coIndex < MaxCompanies
    /\ \E id \in CompanyRecordIds, status \in ResourceStatuses, tryAgain \in BOOLEAN :
         LET index == coIndex + 1
             skipped == skipped_by_filter(id, company_ids)
             raised == IF skipped THEN "none" ELSE validate_response(status, tryAgain)
             context == IF raised = "ok"
                        THEN Some([company_id |-> id, company_name |-> id])
                        ELSE None
         IN  /\ tryAgain => status = 400
             /\ skipped => status = 200 /\ ~tryAgain
             /\ coLast' = [index |-> index, id |-> id, probed |-> ~skipped,
                           raised |-> raised, context |-> context]
             /\ coProbes' = IF skipped THEN coProbes
                            ELSE Append(coProbes, [index |-> index, id |-> id])
             /\ IF raised = "RetriableAPIError"
                THEN /\ coPc' = "aborted"
                     /\ UNCHANGED <<coIndex, coChildRuns>>
                ELSE /\ coIndex' = index
                     /\ coPc' = IF index = MaxCompanies THEN "done" ELSE "sync"
                     /\ coChildRuns' =
                            IF has_child_context(context)
                            THEN coChildRuns \o
                                 [k \in DOMAIN CompanyChildren |->
                                     [index |-> index, child |-> CompanyChildren[k],
                                      context |-> context]]
                            ELSE coChildRuns
    /\ UNCHANGED <<company_ids, nonCompanyVars>>

NextCompany == sync_company

\* ----------------------------- get_url_params of the general ledger streams

\* a date-time (UTC): mi counts the months since year 0, d is the day of the
\* month, h the hour; a date has no hour
MonthIndexes == {2024 * 12, 2024 * 12 + 1, 2024 * 12 + 11, 2025 * 12}
DateTimes == [mi : MonthIndexes, d : {1, 15}, h : {0, 12}]
Dates == [mi : MonthIndexes, d : {1, 15}]
ReportPeriods == {None, Some(1), Some(2), Some(3), Some(14)}

\* strftime("%Y-%m-%dT%H:%M:%SZ"): the fields of the text
strftime(dt) == [Y |-> dt.mi \div 12, M |-> (dt.mi % 12) + 1, D |-> dt.d, h |-> dt.h]

\* the replication_key of the class
replication_key(stream) ==
    IF stream = "general_ledger_entries" THEN "postingDate" ELSE "lastModifiedDateTime"

\* _is_initial_sync, lines 711-714
is_initial_sync(bookmark_date, configured_start) == bookmark_date = configured_start

\* variant: report_periods whole months are taken off
rolling_window_start_one_more(today, periods) ==
    LET report_periods == IF periods = None THEN DefaultReportPeriods ELSE periods[1]
    IN  [mi |-> today.mi - report_periods, d |-> 1, h |-> 0]

\* lines 721-727: the first day of this month, report_periods - 1 months back
rolling_window_start(today, periods) ==
    LET report_periods == IF periods = None THEN DefaultReportPeriods ELSE periods[1]
        beginning_of_month == [mi |-> today.mi, d |-> 1, h |-> 0]
    IN  [beginning_of_month EXCEPT !.mi = @ - (report_periods - 1)]

Filter(key, dt) == [key |-> key, gt |-> strftime(dt)]

\* dynamicsBcStream.get_url_params, without the page token
base_get_url_params(stream, starting) ==
    [k \in {"$filter", "$expand"} |->
        IF k = "$filter" THEN Filter(replication_key(stream), starting)
        ELSE "dimensionSetLines"]

\* GeneralLedgerEntriesStream.get_url_params, without the page token
gl_get_url_params(stream, starting, start_date, today, periods) ==
    [k \in {"$filter", "$expand"} |->
        IF k = "$filter"
        THEN IF ~is_initial_sync(starting, start_date)
             THEN Filter(replication_key(stream), rolling_window_start(today, periods))
             ELSE Filter(replication_key(stream), starting)
        ELSE "dimensionSetLines"]

\* the get_url_params the class of the stream resolves to
stream_get_url_params(stream, starting, start_date, today, periods) ==
    IF stream = "general_ledger_entries_incremental"
    THEN base_get_url_params(stream, starting)
    ELSE gl_get_url_params(stream, starting, start_date, today, periods)

\* get_url_params has not run
ParamsIdle ==
    /\ upStream = "none"
    /\ upStarting = None
    /\ upStartDate = None
    /\ upToday = None
    /\ upPeriods = None
    /\ upParams = None

\* the call of get_url_params for the first page of a sync
get_url_params ==
    /\ upStream = "none"
    /\ \E stream \in GlParents, starting \in DateTimes, start_date \in DateTimes,
          today \in Dates, periods \in ReportPeriods :
         /\ upStream' = stream
         /\ upStarting' = Some(starting)
         /\ upStartDate' = Some(start_date)
         /\ upToday' = Some(today)
         /\ upPeriods' = periods
         /\ upParams' = Some(stream_get_url_params(stream, starting, start_date,
                                                    today, periods))
    /\ UNCHANGED nonParamsVars

NextParams == get_url_params

\* ---------------------------------------------------- _write_state_message

StateStreams == {"gl_entries_dimensions", "general_ledger_entries", "vendor_ledger_entries"}
PartitionLists == {<<>>, <<"p1">>, <<"p1", "p2">>}

\* the bookmark of a stream: partitions and replication_key_value are
\* optional keys
BookmarkEntry(p, v) ==
    [k \in (IF p = {} THEN {} ELSE {"partitions"})
           \cup (IF v = {} THEN {} ELSE {"replication_key_value"}) |->
        IF k = "partitions" THEN CHOOSE x \in p : TRUE ELSE CHOOSE x \in v : TRUE]

BookmarkEntries ==
    {BookmarkEntry(p, v) : p \in {{}} \cup {{x} : x \in PartitionLists}, v \in {{}, {5}}}

TapStates ==
    {<<>>}
    \cup {[bookmarks |-> b] : b \in UNION {[S -> BookmarkEntries] : S \in SUBSET StateStreams}}

\* variant: every stream that holds partitions is truncated
truncated_state_every_stream(state) ==
    IF "bookmarks" \in DOMAIN state /\ DOMAIN state.bookmarks # {}
    THEN [bookmarks |->
            [s \in DOMAIN state.bookmarks |->
                IF Get(state.bookmarks[s], "partitions") \notin {None, Some(<<>>)}
                THEN [partitions |-> <<>>]
                ELSE state.bookmarks[s]]]
    ELSE state

\* lines 183-188: tap_state after the loop over the bookmarks
truncated_state(state) ==
    IF "bookmarks" \in DOMAIN state /\ DOMAIN state.bookmarks # {}
    THEN [bookmarks |->
            [s \in DOMAIN state.bookmarks |->
                IF s \in {"gl_entries_dimensions"}
                   /\ Get(state.bookmarks[s], "partitions") \notin {None, Some(<<>>)}
                THEN [partitions |-> <<>>]
                ELSE state.bookmarks[s]]]
    ELSE state

StateStart ==
    /\ tap_state \in TapStates
    /\ stBefore = <<>>
    /\ stWritten = None

\* no state is kept
StateIdle ==
    /\ tap_state = <<>>
    /\ stBefore = <<>>
    /\ stWritten = None

\* _write_state_message: the loop changes tap_state itself, then the message
\* is written
write_state_message ==
    /\ stBefore' = tap_state
    /\ tap_state' = truncated_state(tap_state)
    /\ stWritten' = Some(tap_state')
    /\ UNCHANGED nonStateVars

NextState == write_state_message

\* ------------------------------------------------- update_access_token

\* a log line that shows a value: the line of the source and what it prints
\* of the value, which an f-string puts in whole
LogLine(line, value) == [line |-> line, shows |-> value]

\* lines 98-101: the log of the attempt
attempt_log(refresh_token) == <<LogLine(100, refresh_token)>>

\* lines 153-159: the log of a failure
failure_log(refresh_token_used, error_response) ==
    <<LogLine(156, refresh_token_used), LogLine(157, error_response)>>

\* lines 178-185: the log of a success
success_log(token_json, config, expiresIn) ==
    LET refresh_token_to_log ==
            IF TruthyStr(Get(token_json, "refresh_token"))
            THEN token_json["refresh_token"]
            ELSE IF "refresh_token" \in DOMAIN config THEN config["refresh_token"]
            ELSE "N/A"
    IN  <<LogLine(182, token_json["access_token"]),
          LogLine(183, refresh_token_to_log),
          LogLine(184, expiresIn)>>

\* lines 78-107: read the clock and the refresh_token, build the payload, POST
begin_refresh(c) ==
    /\ pc = "idle"
    /\ refreshes < MaxRefreshes
    /\ refreshes' = refreshes + 1
    /\ caller' = c
    /\ request_time' = now
    /\ slept' = <<>>
    /\ IF ~TruthyStr(current_refresh_token)
       THEN /\ outcome' = [kind |-> "no_refresh_token", error |-> ""]
            /\ posts' = <<>>
            /\ responses' = <<>>
            /\ payload' = None
            /\ pc' = "idle"
            /\ reqPc' = "idle"
            /\ now' = now
            /\ logged' = <<>>
       ELSE /\ payload' = current_refresh_token
            /\ logged' = attempt_log(payload'[1])
            /\ \E lat \in Latencies :
                 /\ now' = now + lat
                 /\ \E r \in TokenResponses(now') : responses' = <<r>>
            /\ posts' = <<[refresh_token |-> payload'[1]]>>
            /\ pc' = "posted"
            /\ reqPc' = IF c = "request" THEN "auth" ELSE reqPc
            /\ outcome' = [kind |-> "running", error |-> ""]
    /\ UNCHANGED <<tapConfig, authConfig, configFile, access_token, expires_in,
                   last_refreshed, completed>>

\* a direct call of update_access_token
update_access_token ==
    /\ reqPc = "idle"
    /\ begin_refresh("direct")
    /\ UNCHANGED <<attempts, nonAuthVars>>

\* lines 109-140: the first response is a 429
handle_rate_limit ==
    /\ pc = "posted"
    /\ token_response.status = 429
    /\ LET plan == rate_limit_plan(token_response.retry_after, token_response.at) IN
         IF plan.retry
         THEN /\ slept' = Append(slept, plan.sleep[1])
              /\ \E lat \in Latencies :
                   /\ now' = now + plan.sleep[1] + lat
                   /\ \E r \in TokenResponses(now') : responses' = Append(responses, r)
              /\ posts' = Append(posts, [refresh_token |-> payload[1]])
         ELSE UNCHANGED <<slept, now, responses, posts>>
    /\ pc' = "final"
    /\ UNCHANGED <<tapConfig, authConfig, configFile, access_token, expires_in,
                   last_refreshed, caller, request_time, payload, outcome,
                   refreshes, completed, reqPc, attempts, logged, nonAuthVars>>

\* variant: the refresh_token of the response is never stored
stored_config_keeps_refresh_token(config, token_json, expiresIn, requestTime) ==
    LET c1 == Put(config, "access_token", token_json["access_token"])
        c3 == IF TruthyInt(expiresIn)
              THEN Put(c1, "expires", requestTime + expiresIn[1])
              ELSE c1
    IN  Put(c3, "expires_in", expiresIn)

\* lines 188-203: the config dict after a successful response
stored_config(config, token_json, expiresIn, requestTime) ==
    LET c1 == Put(config, "access_token", token_json["access_token"])
        c2 == IF "refresh_token" \in DOMAIN token_json
              THEN Put(c1, "refresh_token", token_json["refresh_token"])
              ELSE c1
        c3 == IF TruthyInt(expiresIn)
              THEN Put(c2, "expires", requestTime + expiresIn[1])
              ELSE c2
    IN  Put(c3, "expires_in", expiresIn)

\* variant: a refresh that fails drops the access token held
finish_refresh_dropping_token ==
    /\ \/ pc = "final"
       \/ pc = "posted" /\ token_response.status # 429
    /\ pc' = "idle"
    /\ IF raise_for_status(token_response)
       THEN /\ outcome' = [kind |-> "failed", error |-> token_response.body["error"]]
            /\ logged' = logged \o failure_log(payload[1], token_response.body)
            /\ reqPc' = "idle"
            /\ access_token' = None
            /\ UNCHANGED <<tapConfig, configFile, expires_in, last_refreshed,
                           completed>>
       ELSE IF "access_token" \notin DOMAIN token_response.body
       THEN /\ outcome' = [kind |-> "key_error", error |-> ""]   \* line 165
            /\ reqPc' = "idle"
            /\ UNCHANGED <<tapConfig, configFile, access_token, expires_in,
                           last_refreshed, completed, logged>>
       ELSE LET token_json == token_response.body IN
            /\ access_token' = Some(token_json["access_token"])
            /\ expires_in' = IF "expires_in" \in DOMAIN token_json
                             THEN token_json["expires_in"]
                             ELSE Some(DefaultExpiresIn)
            /\ last_refreshed' = Some(request_time)
            /\ tapConfig' = stored_config(tapConfig, token_json, expires_in', request_time)
            /\ configFile' = tapConfig'
            /\ logged' = logged \o success_log(token_json, authConfig, expires_in')
            /\ outcome' = [kind |-> "ok", error |-> ""]
            /\ completed' = completed + 1
            /\ reqPc' = IF caller = "request" THEN "ready" ELSE reqPc
    /\ UNCHANGED <<authConfig, now, caller, request_time, payload, posts,
                   responses, slept, refreshes, attempts, nonAuthVars>>

\* lines 142-207: raise_for_status, then store and save the tokens
finish_refresh ==
    /\ \/ pc = "final"
       \/ pc = "posted" /\ token_response.status # 429
    /\ pc' = "idle"
    /\ IF raise_for_status(token_response)
       THEN /\ outcome' = [kind |-> "failed", error |-> token_response.body["error"]]
            /\ logged' = logged \o failure_log(payload[1], token_response.body)
            /\ reqPc' = "idle"
            /\ UNCHANGED <<tapConfig, configFile, access_token, expires_in,
                           last_refreshed, completed>>
       ELSE IF "access_token" \notin DOMAIN token_response.body
       THEN /\ outcome' = [kind |-> "key_error", error |-> ""]   \* line 165
            /\ reqPc' = "idle"
            /\ UNCHANGED <<tapConfig, configFile, access_token, expires_in,
                           last_refreshed, completed, logged>>
       ELSE LET token_json == token_response.body IN
            /\ access_token' = Some(token_json["access_token"])
            /\ expires_in' = IF "expires_in" \in DOMAIN token_json
                             THEN token_json["expires_in"]
                             ELSE Some(DefaultExpiresIn)
            /\ last_refreshed' = Some(request_time)
            /\ tapConfig' = stored_config(tapConfig, token_json, expires_in', request_time)
            /\ configFile' = tapConfig'
            /\ logged' = logged \o success_log(token_json, authConfig, expires_in')
            /\ outcome' = [kind |-> "ok", error |-> ""]
            /\ completed' = completed + 1
            /\ reqPc' = IF caller = "request" THEN "ready" ELSE reqPc
    /\ UNCHANGED <<authConfig, now, caller, request_time, payload, posts,
                   responses, slept, refreshes, attempts, nonAuthVars>>

\* ------------------------------------------- the write of the config file

\* the order in which json.dump writes the keys
KeyOrder == <<"access_token", "refresh_token", "expires", "expires_in">>

KeysOf(doc) == SelectSeq(KeyOrder, LAMBDA k : k \in DOMAIN doc)

\* the text on disk once the first n keys of doc are written
Prefix(doc, n) ==
    [complete |-> FALSE,
     doc |-> [k \in {KeysOf(doc)[j] : j \in 1 .. n} |-> doc[k]]]

Complete(doc) == [complete |-> TRUE, doc |-> doc]

WriteStart ==
    /\ wOld \in {c \in InitialConfigs : "refresh_token" \in DOMAIN c}
    /\ \E token_json \in TokenBodies :
         wNew = stored_config(wOld, token_json,
                              IF "expires_in" \in DOMAIN token_json
                              THEN token_json["expires_in"]
                              ELSE Some(DefaultExpiresIn),
                              0)
    /\ durable = Complete(wOld)
    /\ wPc = "line 205"
    /\ wDumped = 0

\* no refresh is writing the file
WriteIdle ==
    /\ wOld = [refresh_token |-> "r0"]
    /\ wNew = wOld
    /\ durable = Complete(wOld)
    /\ wPc = "closed"
    /\ wDumped = 0

\* line 206: open(config_file, "w") leaves the file empty
open_config_file ==
    /\ wPc = "line 205"
    /\ durable' = Prefix(wNew, 0)
    /\ wPc' = "line 207"
    /\ UNCHANGED <<wOld, wNew, wDumped, nonWriteVars>>

\* line 207: json.dump writes the document piece by piece; one more key
\* reaches the disk
dump_key ==
    /\ wPc = "line 207"
    /\ wDumped < Len(KeysOf(wNew))
    /\ wDumped' = wDumped + 1
    /\ durable' = Prefix(wNew, wDumped')
    /\ UNCHANGED <<wPc, wOld, wNew, nonWriteVars>>

\* the end of the with block: the last piece is written and the file closed
close_config_file ==
    /\ wPc = "line 207"
    /\ wDumped = Len(KeysOf(wNew))
    /\ durable' = Complete(wNew)
    /\ wPc' = "closed"
    /\ UNCHANGED <<wOld, wNew, wDumped, nonWriteVars>>

\* the process is stopped (a kill, a crash of the pod) while it writes
interrupt ==
    /\ wPc \in {"line 205", "line 207"}
    /\ wPc' = "stopped"
    /\ UNCHANGED <<durable, wOld, wNew, wDumped, nonWriteVars>>

NextWrite ==
    \/ open_config_file
    \/ dump_key
    \/ close_config_file
    \/ interrupt

\* ------------------------------------------------------ a resource request

\* make_request, first half: prepare_request asks the authenticator for its
\* headers, which refreshes the token when is_token_valid is False
prepare_request ==
    /\ pc = "idle"
    /\ reqPc \in {"idle", "backoff"}
    /\ Len(attempts) < MaxAttempts
    /\ IF is_token_valid
       THEN /\ access_token' = access_token_after_valid
            /\ reqPc' = "ready"
            /\ UNCHANGED <<tapConfig, authConfig, configFile, expires_in,
                           last_refreshed, now, pc, caller, request_time, payload,
                           posts, responses, slept, outcome, refreshes, completed,
                           logged>>
       ELSE begin_refresh("request")
    /\ attempts' = IF reqPc = "idle" THEN <<>> ELSE attempts
    /\ UNCHANGED nonAuthVars

\* make_request, second half: _request sends it and validate_response
\* classifies the answer; the decorator retries a RetriableAPIError
send_request ==
    /\ reqPc = "ready"
    /\ \E status \in ResourceStatuses, tryAgain \in BOOLEAN :
         /\ tryAgain => status = 400
         /\ attempts' = Append(attempts, [token |-> access_token, status |-> status,
                                          completed |-> completed,
                                          stream |-> reqStream])
         /\ reqPc' = IF validate_response(status, tryAgain) = "RetriableAPIError"
                        /\ Len(attempts') < MaxAttempts
                     THEN "backoff"
                     ELSE "idle"
    /\ UNCHANGED <<tapConfig, authConfig, configFile, access_token, expires_in,
                   last_refreshed, now, pc, caller, request_time, payload, posts,
                   responses, slept, outcome, refreshes, completed, logged,
                   nonAuthVars>>

\* ------------------------------------------ the authenticator of a stream

RequestStreams == {"companies", "items"}

\* variant: each stream keeps an authenticator of its own
authenticator_key_per_stream(stream) == stream

\* metaclass=SingletonMeta: one instance of the class, whatever the stream
\* create_for_stream is called for
authenticator_key(stream) == "LightspeedOAuthAuthenticator"

\* the process starts serving its first stream with the authenticator in
\* use; instances holds the fields of the other authenticators kept
SharedStart ==
    /\ reqStream = "companies"
    /\ served = <<[stream |-> "companies", completed |-> 0]>>
    /\ instances = <<>>

\* the next request comes from another stream: its authenticator property
\* calls create_for_stream, which yields the instance kept under the key or
\* constructs one (__init__, lines 17-28) from the stream's config
switch_stream ==
    /\ pc = "idle"
    /\ reqPc = "idle"
    /\ Len(served) < MaxServed
    /\ \E s \in RequestStreams \ {reqStream} :
         LET used == authenticator_key(reqStream)
             key == authenticator_key(s)
         IN  /\ reqStream' = s
             /\ served' = Append(served, [stream |-> s, completed |-> completed])
             /\ IF key = used
                THEN UNCHANGED <<access_token, expires_in, last_refreshed, instances>>
                ELSE /\ instances' =
                            [k \in (DOMAIN instances \cup {used}) \ {key} |->
                                IF k = used
                                THEN [access_token |-> access_token,
                                      expires_in |-> expires_in,
                                      last_refreshed |-> last_refreshed]
                                ELSE instances[k]]
                     /\ IF key \in DOMAIN instances
                        THEN /\ access_token' = instances[key].access_token
                             /\ expires_in' = instances[key].expires_in
                             /\ last_refreshed' = instances[key].last_refreshed
                        ELSE /\ access_token' = Get(authConfig, "access_token")
                             /\ expires_in' = None
                             /\ last_refreshed' = None
    /\ UNCHANGED <<tapConfig, authConfig, configFile, now, pc, caller, request_time,
                   payload, posts, responses, slept, outcome, refreshes, completed,
                   reqPc, attempts, logged>>
    /\ UNCHANGED <<pageVars, classVars, glVars, dedupVars, companyVars, paramsVars,
                   stateVars, writeVars, tokenVars, templateVars>>

\* --------------------------------- the template authenticator of client.py

TickSeconds == {5}

\* TapDynamicsBCAuth.is_token_valid, lines 45-53
template_is_token_valid(expiresIn, lastRefreshed, t) ==
    IF lastRefreshed = None THEN FALSE
    ELSE IF ~TruthyInt(expiresIn) THEN TRUE
    ELSE expiresIn[1] > t - lastRefreshed[1]

\* variant: a response without refresh_token keeps the one held
template_store_keeping_refresh_token(auth, token_json, requestTime) ==
    LET a1 == [auth EXCEPT
                 !.access_token = Some(token_json["access_token"]),
                 !.expires_in = IF "expires_in" \in DOMAIN token_json
                                THEN token_json["expires_in"]
                                ELSE Some(TemplateDefaultExpiresIn),
                 !.last_refreshed = Some(requestTime),
                 !.config = Put(@, "access_token", token_json["access_token"])]
        a2 == IF "refresh_token" \in DOMAIN token_json
              THEN [a1 EXCEPT !.config = Put(@, "refresh_token", token_json["refresh_token"])]
              ELSE a1
    IN  [auth |-> [a2 EXCEPT !.file = a2.config], raised |-> "none"]

\* TapDynamicsBCAuth.update_access_token, lines 79-95, for a response that
\* holds an access_token: the fields and the config after it, and what it
\* raises; line 92 raises KeyError when the response has no refresh_token
template_store(auth, token_json, requestTime) ==
    LET a1 == [auth EXCEPT
                 !.access_token = Some(token_json["access_token"]),
                 !.expires_in = IF "expires_in" \in DOMAIN token_json
                                THEN token_json["expires_in"]
                                ELSE Some(TemplateDefaultExpiresIn),
                 !.last_refreshed = Some(requestTime),
                 !.config = Put(@, "access_token", token_json["access_token"])]
    IN  IF "refresh_token" \notin DOMAIN token_json
        THEN [auth |-> a1, raised |-> "KeyError refresh_token"]
        ELSE LET a2 == [a1 EXCEPT !.config = Put(@, "refresh_token",
                                                 token_json["refresh_token"])]
             IN  [auth |-> [a2 EXCEPT !.file = a2.config], raised |-> "none"]

\* the authenticator as constructed, lines 17-24: no token, no refresh yet
TemplateStart ==
    /\ tplAuth = [access_token |-> None, expires_in |-> None, last_refreshed |-> None,
                  config |-> [access_token |-> "a0", refresh_token |-> "r0"],
                  file |-> [access_token |-> "a0", refresh_token |-> "r0"]]
    /\ tplNow = 0
    /\ tplCalls = 0
    /\ tplStamped = 0
    /\ tplBefore = tplAuth
    /\ tplResp = None
    /\ tplOutcome = "none"
    /\ tplCheck = None

\* TapDynamicsBCAuth.update_access_token, lines 63-95
template_update_access_token ==
    /\ tplCalls < MaxRefreshes
    /\ tplCalls' = tplCalls + 1
    /\ tplBefore' = tplAuth
    /\ \E r \in TokenResponses(tplNow) :
         /\ tplResp' = Some(r)
         /\ IF raise_for_status(r)
            THEN /\ tplOutcome' = "RuntimeError"
                 /\ UNCHANGED <<tplAuth, tplStamped>>
            ELSE IF "access_token" \notin DOMAIN r.body
            THEN /\ tplOutcome' = "KeyError access_token"
                 /\ UNCHANGED <<tplAuth, tplStamped>>
            ELSE LET stored == template_store(tplAuth, r.body, tplNow)
                 IN  /\ tplAuth' = stored.auth
                     /\ tplOutcome' = stored.raised
                     /\ tplStamped' = tplStamped + 1
    /\ UNCHANGED <<tplNow, tplCheck, nonTemplateVars>>

\* a call of is_token_valid
template_check ==
    /\ tplCheck' = Some([valid |-> template_is_token_valid(tplAuth.expires_in,
                                                          tplAuth.last_refreshed, tplNow),
                         at |-> tplNow,
                         expires_in |-> tplAuth.expires_in,
                         last_refreshed |-> tplAuth.last_refreshed,
                         stamped |-> tplStamped])
    /\ UNCHANGED <<tplAuth, tplNow, tplCalls, tplStamped, tplBefore, tplResp,
                   tplOutcome, nonTemplateVars>>

\* time passes
template_tick ==
    /\ \E d \in TickSeconds :
         /\ tplNow + d <= MaxTemplateTime
         /\ tplNow' = tplNow + d
    /\ UNCHANGED <<tplAuth, tplCalls, tplStamped, tplBefore, tplResp, tplOutcome,
                   tplCheck, nonTemplateVars>>

NextTemplate ==
    \/ template_update_access_token
    \/ template_check
    \/ template_tick

NextAuth ==
    \/ update_access_token
    \/ handle_rate_limit
    \/ finish_refresh

InitAuth == AuthStart /\ PageIdle /\ ClassIdle /\ GlIdle /\ DedupIdle /\ CompanyIdle /\ ParamsIdle /\ StateIdle /\ WriteIdle /\ SharedStart /\ TokenIdle /\ TemplateStart

SpecAuth == InitAuth /\ [][NextAuth]_vars

\* the resource requests of one run: the token is refreshed only from
\* prepare_request
NextRequest ==
    \/ prepare_request
    \/ send_request
    \/ handle_rate_limit
    \/ finish_refresh

SpecRequest == InitAuth /\ [][NextRequest]_vars

\* one run of request_records against a scripted server
InitPage ==
    /\ PageStart
    /\ ClassIdle
    /\ GlIdle
    /\ AuthStart
    /\ tapConfig = [access_token |-> "a0", refresh_token |-> "r0"]
    /\ DedupIdle
    /\ CompanyIdle
    /\ ParamsIdle
    /\ StateIdle
    /\ WriteIdle
    /\ SharedStart
    /\ TokenIdle
    /\ TemplateStart

SpecPage == InitPage /\ [][NextPage]_vars

\* the sync of one stream over the parents of a run
InitClass ==
    /\ ClassStart
    /\ GlIdle
    /\ PageIdle
    /\ AuthStart
    /\ tapConfig = [access_token |-> "a0", refresh_token |-> "r0"]
    /\ DedupIdle
    /\ CompanyIdle
    /\ ParamsIdle
    /\ StateIdle
    /\ WriteIdle
    /\ SharedStart
    /\ TokenIdle
    /\ TemplateStart

SpecClass == InitClass /\ [][NextClass]_vars

\* make_request of general_ledger_entries for one page
InitGl ==
    /\ GlStart
    /\ ClassIdle
    /\ PageIdle
    /\ AuthStart
    /\ tapConfig = [access_token |-> "a0", refresh_token |-> "r0"]
    /\ DedupIdle
    /\ CompanyIdle
    /\ ParamsIdle
    /\ StateIdle
    /\ WriteIdle
    /\ SharedStart
    /\ TokenIdle
    /\ TemplateStart

SpecGl == InitGl /\ [][NextGl]_vars

\* the records of one general ledger stream in one run
InitDedup ==
    /\ DedupStart
    /\ GlIdle
    /\ ClassIdle
    /\ PageIdle
    /\ AuthStart
    /\ tapConfig = [access_token |-> "a0", refresh_token |-> "r0"]
    /\ CompanyIdle
    /\ ParamsIdle
    /\ StateIdle
    /\ WriteIdle
    /\ SharedStart
    /\ TokenIdle
    /\ TemplateStart

SpecDedup == InitDedup /\ [][NextDedup]_vars

SpecRuns == InitDedup /\ [][NextRuns]_vars

\* the page token of one continuation link
InitToken ==
    /\ InitAuth
    /\ tapConfig = [access_token |-> "a0", refresh_token |-> "r0"]
    /\ TemplateStart

SpecToken == InitToken /\ [][NextToken]_vars

\* the template authenticator in one process
SpecTemplate == InitToken /\ [][NextTemplate]_vars

\* the records of companies in one run
InitCompany ==
    /\ CompanyStart
    /\ DedupIdle
    /\ GlIdle
    /\ ClassIdle
    /\ PageIdle
    /\ AuthStart
    /\ tapConfig = [access_token |-> "a0", refresh_token |-> "r0"]
    /\ ParamsIdle
    /\ StateIdle
    /\ WriteIdle
    /\ SharedStart
    /\ TokenIdle
    /\ TemplateStart

SpecCompany == InitCompany /\ [][NextCompany]_vars

\* the calls of get_url_params
InitParams ==
    /\ ParamsIdle
    /\ CompanyIdle
    /\ DedupIdle
    /\ GlIdle
    /\ ClassIdle
    /\ PageIdle
    /\ AuthStart
    /\ tapConfig = [access_token |-> "a0", refresh_token |-> "r0"]
    /\ StateIdle
    /\ WriteIdle
    /\ SharedStart
    /\ TokenIdle
    /\ TemplateStart

SpecParams == InitParams /\ [][NextParams]_vars

\* the state messages of one run
InitState ==
    /\ StateStart
    /\ ParamsIdle
    /\ CompanyIdle
    /\ DedupIdle
    /\ GlIdle
    /\ ClassIdle
    /\ PageIdle
    /\ AuthStart
    /\ tapConfig = [access_token |-> "a0", refresh_token |-> "r0"]
    /\ WriteIdle
    /\ SharedStart
    /\ TokenIdle
    /\ TemplateStart

SpecState == InitState /\ [][NextState]_vars

\* the write of the config file at the end of one refresh
InitWrite ==
    /\ WriteStart
    /\ StateIdle
    /\ ParamsIdle
    /\ CompanyIdle
    /\ DedupIdle
    /\ GlIdle
    /\ ClassIdle
    /\ PageIdle
    /\ AuthStart
    /\ tapConfig = [access_token |-> "a0", refresh_token |-> "r0"]
    /\ SharedStart
    /\ TokenIdle
    /\ TemplateStart

SpecWrite == InitWrite /\ [][NextWrite]_vars

\* the requests of the streams of one process, one after the other; a
\* refresh that the token endpoint answers with 429 is followed in SpecAuth
\* and SpecRequest, and no further here
NextShared ==
    \/ switch_stream
    \/ prepare_request
    \/ send_request
    \/ finish_refresh

InitShared ==
    /\ InitAuth
    /\ tapConfig \in {[refresh_token |-> "r0"],
                      [access_token |-> "a0", refresh_token |-> "r0"]}
    /\ TokenIdle
    /\ TemplateStart

SpecShared == InitShared /\ [][NextShared]_vars

\* ------------------------------------------------------------ properties

\* update_access_token has returned or raised after at least one POST
Finished == pc = "idle" /\ outcome.kind \in {"ok", "failed", "key_error"}

\* the 429 branch of the running or last refresh is over
RateLimitHandled ==
    /\ responses # <<>>
    /\ responses[1].status = 429
    /\ pc = "final" \/ Finished

TotalSlept == IF slept = <<>> THEN 0 ELSE slept[1]

Is2xx(status) == 200 <= status /\ status < 300

\* C1: after a successful refresh the persisted document holds the
\* access_token of the response, and the refresh_token of the response when it
\* carries one, otherwise the refresh_token held before the refresh.
C1_PersistedTokens ==
    (pc = "idle" /\ outcome.kind = "ok") =>
        /\ configFile["access_token"] = token_response.body["access_token"]
        /\ configFile["refresh_token"] =
              IF "refresh_token" \in DOMAIN token_response.body
              THEN token_response.body["refresh_token"]
              ELSE payload[1]

\* a second refresh whose response omits the refresh_token, after a first one
\* that rotated it
C1_Witness ==
    /\ pc = "idle" /\ outcome.kind = "ok"
    /\ completed = 2
    /\ "refresh_token" \notin DOMAIN token_response.body
    /\ configFile["refresh_token"] = "r1"
    /\ configFile["access_token"] = "a2"

\* C2: every POST of a refresh sends the refresh_token the tap's config holds
\* when that refresh starts (the config does not change while it runs).
C2_SendsCurrentRefreshToken ==
    pc \in {"posted", "final"} =>
        \A i \in 1 .. Len(posts) : posts[i].refresh_token = tapConfig["refresh_token"]

\* the second refresh of a run, after a rotation, retrying after a 429
C2_Witness ==
    /\ pc = "final"
    /\ refreshes = 2
    /\ Len(posts) = 2
    /\ posts[2].refresh_token = "r2"
    /\ authConfig["refresh_token"] = "r0"

\* C3: a first response 429 is followed by exactly one more POST, whatever the
\* Retry-After header.
C3_ExactlyOneRetry ==
    RateLimitHandled => Len(posts) = 2

RetryAfterFiveThenOk ==
    /\ RateLimitHandled
    /\ responses[1].retry_after = [kind |-> "seconds", val |-> 5]
    /\ Len(responses) >= 2 => responses[2].status = 200

\* C5 as claimed: 429 with Retry-After: 5, then 200, gives one retry after a
\* wait of 5 seconds.
C5_WaitsFiveSeconds ==
    RetryAfterFiveThenOk => (Len(posts) = 2 /\ slept = <<5>>)

\* C5 as amended: 429 with Retry-After: 5, then 200, gives one retry after a
\* wait of 60 seconds, a number of seconds being no HTTP date.
C5_WaitsSixtySeconds ==
    RetryAfterFiveThenOk => (Len(posts) = 2 /\ slept = <<60>>)

C5_Witness ==
    /\ RetryAfterFiveThenOk
    /\ Finished /\ outcome.kind = "ok"
    /\ slept = <<60>>

\* C6: when the final response is not 2xx, update_access_token raises with
\* the error payload of that response and no POST follows it.
C6_FailsOnErrorResponse ==
    (Finished /\ ~Is2xx(token_response.status)) =>
        /\ outcome = [kind |-> "failed", error |-> token_response.body["error"]]
        /\ Len(posts) = Len(responses)
        /\ Len(posts) <= 2

\* the retry after a 429 is answered 400
C6_Witness ==
    /\ Finished
    /\ Len(responses) = 2
    /\ token_response.status = 400
    /\ outcome.error = "invalid_grant"

\* C7: is_token_valid is True whenever a token was obtained in this process
\* or the loaded config holds one, whatever the expiry; it is False only when
\* no token is held in memory and none is in the config.
C7_OptimisticValidity ==
    /\ (completed > 0 \/ "access_token" \in DOMAIN authConfig) => is_token_valid
    /\ ~is_token_valid =>
          (~TruthyStr(access_token) /\ "access_token" \notin DOMAIN authConfig)

\* a token obtained 60 seconds ago with expires_in 10 is still valid
C7_Witness ==
    /\ pc = "idle" /\ completed > 0
    /\ "access_token" \notin DOMAIN authConfig
    /\ expires_in = Some(10)
    /\ now > tapConfig["expires"]
    /\ is_token_valid

\* C8: after a 401 the token is refreshed before the request is sent again,
\* so the retry carries another access token.
C8_RefreshBefore401Retry ==
    \A i \in 1 .. Len(attempts) - 1 :
        attempts[i].status = 401 =>
            /\ attempts[i + 1].completed > attempts[i].completed
            /\ attempts[i + 1].token # attempts[i].token

\* the continuation token a page carries: the composite of aid and
\* $skiptoken, null when the page has no link or the link lacks one of them
PageToken(page) ==
    IF page.nextLink = None THEN None
    ELSE IF page.nextLink[1].aid = <<>> \/ page.nextLink[1].skiptoken = <<>> THEN None
    ELSE Some(<<"&", "aid=">> \o page.nextLink[1].aid
              \o <<"&", "$skiptoken=">> \o page.nextLink[1].skiptoken)

\* a script T1, ..., Tn-1, null with no token equal to the one before it
ValidScript ==
    LET n == Len(script) IN
    /\ n >= 1
    /\ PageToken(script[n]) = None
    /\ \A i \in 1 .. n - 1 : PageToken(script[i]) # None
    /\ \A i \in 2 .. n - 1 : PageToken(script[i]) # PageToken(script[i - 1])

RECURSIVE RowsOfPages(_)
RowsOfPages(n) == IF n = 0 THEN <<>> ELSE RowsOfPages(n - 1) \o script[n].value

\* C9: against a script T1, ..., Tn-1, null with no token equal to the one
\* before it, request_records sends one request per page, each after the
\* first carrying the token of the page before, yields the rows of the pages
\* in page order and in the order of each page, and ends after the page with
\* the null token.
C9_PagesInOrder ==
    ValidScript =>
        LET k == Len(pageRequests) IN
        /\ pagePc # "error"
        /\ k <= Len(script)
        /\ \A i \in 1 .. k :
              pageRequests[i] = IF i = 1 THEN None ELSE PageToken(script[i - 1])
        /\ emitted = IF k = 0 THEN <<>>
                     ELSE RowsOfPages(k - 1) \o SubSeq(script[k].value, 1, row)
        /\ pagePc = "done" =>
              (k = Len(script) /\ emitted = RowsOfPages(Len(script)))
        /\ pagePc # "done" => ENABLED NextPage

\* three pages, five rows
C9_Witness ==
    /\ ValidScript
    /\ pagePc = "done"
    /\ Len(pageRequests) = 3
    /\ emitted = <<2, 1, 1, 2, 1>>

\* page i has been processed to the end of the loop body
Processed(i) == i < Len(pageRequests) \/ pagePc \in {"request", "done", "error"}

\* C10: a page that returns a non-null token equal to the token its request
\* carried makes request_records raise, and no request follows.
C10_LoopRaises ==
    \A i \in 1 .. Len(pageRequests) :
        LET t == PageToken(ServerPage(i)) IN
        (t # None /\ t = pageRequests[i] /\ Processed(i)) =>
            (pagePc = "error" /\ Len(pageRequests) = i)

\* page 2 returns the token of page 1
C10_Witness ==
    /\ pagePc = "error"
    /\ Len(script) = 3
    /\ Len(pageRequests) = 2
    /\ PageToken(script[1]) = PageToken(script[2])
    /\ emitted = <<1, 2, 1>>

\* C11: request_records stops for every server: the loop never comes back to
\* a request with the same token at the same place of the server's cycle of
\* answers (from such a request on, the run repeats what it did and never
\* ends)
C11_RequestRecordsStops ==
    \A i, j \in 1 .. Len(pageRequests) :
        i < j /\ (j - i) % Len(script) = 0 => pageRequests[i] # pageRequests[j]

\* ------------------------------------------ properties of validate_response

Validated == vLast.status # 0
BaseStream == vStream = "general_ledger_entries"
DimensionsStream == vStream = "gl_entries_dimensions"

\* C12: a 429 answer to a resource request is classified as retriable
C12_RateLimitRetriable ==
    Validated /\ vLast.status = 429 => vLast.raised = "RetriableAPIError"

\* C13: for every status but 429 the base classification raises the retriable
\* error for 401, 500-599 and a 400 with the try-again marker, the fatal error
\* for every other 400-499, which ends the sync without another request, and
\* nothing below 400
C13_Classification ==
    Validated /\ BaseStream /\ vLast.status # 429 =>
        LET st == vLast.status IN
        /\ vLast.raised =
              IF st = 401 \/ (500 <= st /\ st <= 599) \/ (st = 400 /\ vLast.tryAgain)
              THEN "RetriableAPIError"
              ELSE IF 400 <= st /\ st <= 499 THEN "FatalAPIError"
              ELSE "ok"
        /\ vLast.raised = "FatalAPIError" => vPc = "aborted" /\ ~ENABLED sync_child
        /\ vLast.raised = "RetriableAPIError" => vPc = "request" /\ vParent = vLast.parent - 1

C13_Witness ==
    /\ BaseStream
    /\ vLast.status = 400
    /\ vLast.tryAgain
    /\ vLast.raised = "RetriableAPIError"
    /\ vParent = 1

\* C14: in gl_entries_dimensions a 404 raises nothing and counts as an empty
\* result: no row for that parent, the traversal goes on; every other status
\* is classified as in the base stream
C14_NotFoundIsEmpty ==
    Validated /\ DimensionsStream =>
        IF vLast.status = 404
        THEN /\ vLast.raised = "ok"
             /\ vPc # "aborted"
             /\ vParent = vLast.parent
             /\ \A k \in 1 .. Len(vRows) : vRows[k].parent # vLast.parent
        ELSE vLast.raised = validate_response(vLast.status, vLast.tryAgain)

\* ------------------------------------------ properties of the batch fallback

InFallback == gl_ids_resp # None
Returned == glPc = "returned" /\ InFallback
TotalIds == Len(gl_ids)
ExpandedCalls == SelectSeq(glLog, LAMBDA c : c.kind = "expanded")
IdsOf(entries) == [k \in DOMAIN entries |-> entries[k].id]
AllExpandedOk == \A c \in Range(ExpandedCalls) : c.ok

\* C15: the fallback starts only from a FatalAPIError of the page request
\* whose message holds "Dimension Value does not exist"; another FatalAPIError
\* is raised as it is with no fallback request sent; a RetriableAPIError
\* never starts the fallback
C15_FallbackOnlyOnMarker ==
    /\ glPc \in {"ids", "batches"} \/ glLog # <<>> =>
           glPage.raised = "FatalAPIError" /\ glPage.dimMarker
    /\ glPage.raised = "FatalAPIError" /\ ~glPage.dimMarker =>
           /\ glPc = "raised"
           /\ glRaised = "FatalAPIError of the page request"
           /\ glLog = <<>>
    /\ glPage.raised = "RetriableAPIError" => glPc = "request" /\ glLog = <<>>

C15_Witness ==
    /\ glPc = "ids"
    /\ glPage.status = 400
    /\ glPage.dimMarker
    /\ glLog = <<>>

\* C16: when the IDs-only request and every expanded batch request succeed,
\* the records returned hold exactly the ids of the IDs-only answer, in its
\* order; a record of a batch whose expanded request succeeded has its
\* dimensionSetLines field
C16_RecombinedKeepsIds ==
    Returned =>
        /\ AllExpandedOk => IdsOf(glResult[1].value) = IdsOf(gl_ids_resp[1].value)
        /\ \A c \in Range(ExpandedCalls) : c.ok =>
               \A id \in Range(c.ids) :
                   \E k \in DOMAIN glResult[1].value :
                       /\ glResult[1].value[k].id = id
                       /\ "dimensionSetLines" \in DOMAIN glResult[1].value[k]

C16_Witness ==
    /\ Returned
    /\ AllExpandedOk
    /\ TotalIds = 401
    /\ Len(glResult[1].value) = 401

\* C17: the k-th expanded batch request asks for the k-th run of 200
\* consecutive ids, the last run being what is left; the filter selects those
\* ids and no other; ceil(n/200) such requests are sent
C17_ConsecutiveBatches ==
    glPc \in {"batches", "returned"} /\ InFallback =>
        LET calls == ExpandedCalls IN
        /\ \A k \in DOMAIN calls :
               /\ calls[k].ids =
                      SubSeq(gl_ids, BatchSize * (k - 1) + 1, Min(BatchSize * k, TotalIds))
               /\ Range(ServerQuery(calls[k].ids)) = Range(calls[k].ids)
               /\ Len(calls[k].ids) <= BatchSize
               /\ k < Len(calls) => Len(calls[k].ids) = BatchSize
               /\ Len(calls[k].ids) >= 1
        /\ Len(calls) * BatchSize = Min(batch_i, BatchSize * Len(calls))
        /\ glPc = "returned" =>
               /\ Len(calls) * BatchSize >= TotalIds
               /\ Len(calls) > 0 => (Len(calls) - 1) * BatchSize < TotalIds

C17_Witness ==
    /\ Returned
    /\ TotalIds = 401
    /\ Len(ExpandedCalls) = 3
    /\ Len(ExpandedCalls[3].ids) = 1

\* C18: a failed expanded batch request is followed by the request for the
\* same batch without the expansion and then by one request for the lines of
\* each record of the batch, in order; a record whose request fails is kept
\* with an empty dimensionSetLines, nothing is raised and the records after it
\* are requested and kept as well
C18_IndividualFallback ==
    \A p \in DOMAIN glLog :
        glLog[p].kind = "expanded" /\ ~glLog[p].ok =>
            /\ p + 1 <= Len(glLog)
            /\ glLog[p + 1].kind = "plain"
            /\ glLog[p + 1].ids = glLog[p].ids
            /\ glPc # "raised"
            /\ glLog[p + 1].ok =>
                   \A k \in 1 .. Len(glLog[p].ids) :
                       LET id == glLog[p].ids[k]
                           call == glLog[p + 1 + k]
                       IN  /\ call.kind = "dimensionSetLines"
                           /\ call.ids = <<id>>
                           /\ \E m \in DOMAIN all_gls :
                                  /\ all_gls[m].id = id
                                  /\ all_gls[m].dimensionSetLines =
                                         IF call.ok THEN ServerDims(id) ELSE <<>>

C18_Witness ==
    \E p \in DOMAIN glLog :
        /\ p + 1 <= Len(glLog)
        /\ glLog[p].kind = "dimensionSetLines" /\ ~glLog[p].ok
        /\ glLog[p + 1].kind = "dimensionSetLines" /\ glLog[p + 1].ok
        /\ \E m \in DOMAIN all_gls :
               all_gls[m].id = glLog[p].ids[1] /\ all_gls[m].dimensionSetLines = <<>>

\* C19: once the IDs-only request was answered make_request raises nothing,
\* whatever fails after it, and goes on to return a response; an error of the
\* fallback reaches the caller only when the IDs-only request failed
C19_NothingRaisedAfterIds ==
    /\ InFallback =>
           /\ glPc \in {"batches", "returned"}
           /\ glRaised = "none"
           /\ glPc = "batches" => ENABLED fetch_batch \/ ENABLED return_enriched
           /\ glPc = "returned" => glResult # None
    /\ glPc = "raised" /\ glLog # <<>> =>
           /\ glLog = <<Call("select=id", <<>>, FALSE)>>
           /\ glRaised = "error of the IDs-only request"

C19_Witness ==
    /\ Returned
    /\ \E p \in DOMAIN glLog : glLog[p].kind = "plain" /\ ~glLog[p].ok
    /\ \E p \in DOMAIN glLog : glLog[p].kind = "dimensionSetLines" /\ ~glLog[p].ok

\* C20: the body returned by the fallback is the body of the IDs-only answer
\* with value replaced by the gathered records; every other field, the
\* continuation link among them, is as received, so the next page token is the
\* one of that answer
C20_ShapeKept ==
    Returned =>
        /\ DOMAIN glResult[1] = DOMAIN gl_ids_resp[1]
        /\ \A f \in DOMAIN gl_ids_resp[1] \ {"value"} : glResult[1][f] = gl_ids_resp[1][f]
        /\ glResult[1].value = all_gls
        /\ get_next_page_token(glResult[1]) = get_next_page_token(gl_ids_resp[1])

C20_Witness ==
    /\ Returned
    /\ get_next_page_token(glResult[1]) # None
    /\ glResult[1].value # gl_ids_resp[1].value
    /\ TotalIds = 2

\* ------------------------------------------------ properties of the streams

\* C21: vendor_ledger_entries is synced once for each document number among
\* the records processed, for the first record that carries it: two records
\* with one number give one sync, two records with two numbers give two
C21_OncePerDocument ==
    "vendor_ledger_entries" \in Range(child_streams(ddParent))
    /\ "vendor_ledger_entries" \in ddSelected =>
        \A doc \in DocNos :
            LET syncs == {k \in DOMAIN ddSyncs :
                             /\ ddSyncs[k].child = "vendor_ledger_entries"
                             /\ ddSyncs[k].gl_doc_no = doc}
                records == {k \in DOMAIN ddRecords : ddRecords[k].gl_doc_no = doc}
            IN  IF records = {} THEN syncs = {}
                ELSE /\ Cardinality(syncs) = 1
                     /\ \A k \in syncs : \A j \in records : ddSyncs[k].record <= j

C21_Witness ==
    /\ ddParent = "general_ledger_entries_incremental"
    /\ "vendor_ledger_entries" \in ddSelected
    /\ Len(ddRecords) = 3
    /\ ddRecords[1].gl_doc_no = "D1"
    /\ ddRecords[2].gl_doc_no = "D1"
    /\ ddRecords[3].gl_doc_no = "D2"
    /\ Len(ddSyncs) = 2

ChildRunsOf(index) == {k \in DOMAIN coChildRuns : coChildRuns[k].index = index}

\* C22: no child of companies runs without a context; a probe that ends in a
\* FatalAPIError leaves the company without a context and without child
\* syncs, and the traversal goes on with the next record
C22_NoChildWithoutContext ==
    /\ \A k \in DOMAIN coChildRuns :
           /\ coChildRuns[k].context # None
           /\ coChildRuns[k].context[1].company_id = coLast.id
                  \/ coChildRuns[k].index < coLast.index
    /\ coLast.raised = "FatalAPIError" =>
           /\ coLast.context = None
           /\ ChildRunsOf(coLast.index) = {}
           /\ coPc # "aborted"
           /\ coIndex = coLast.index
           /\ coIndex < MaxCompanies => ENABLED sync_company

C22_Witness ==
    /\ coLast.index = 2
    /\ coLast.raised = "ok"
    /\ ChildRunsOf(1) = {}
    /\ ChildRunsOf(2) # {}
    /\ \E k \in DOMAIN coProbes : coProbes[k].index = 1

\* id is one of the entries of text: a piece between two commas (or an end of
\* the text) that is id with blanks around it
IsEntry(id, text) ==
    \E p \in 1 .. Len(text), q \in 1 .. Len(text) :
        /\ p <= q
        /\ p = 1 \/ text[p - 1] = ","
        /\ q = Len(text) \/ text[q + 1] = ","
        /\ \A k \in p .. q : text[k] # ","
        /\ \E a \in p .. q, b \in p .. q :
               /\ a <= b
               /\ SubSeq(text, a, b) = id
               /\ \A k \in (p .. a - 1) \cup (b + 1 .. q) : text[k] = " "

Configured == company_ids # None /\ company_ids[1] # <<>>

\* C23: with company_ids set, only the companies whose id is an entry of it
\* are probed and have their children synced; without it, the children are
\* synced for every company whose probe succeeds
C23_CompanyFilter ==
    /\ Configured =>
           /\ \A k \in DOMAIN coChildRuns :
                  IsEntry(coChildRuns[k].context[1].company_id, company_ids[1])
           /\ \A k \in DOMAIN coProbes : IsEntry(coProbes[k].id, company_ids[1])
           /\ coLast.index > 0 => (coLast.probed <=> IsEntry(coLast.id, company_ids[1]))
    /\ ~Configured /\ coLast.index > 0 => coLast.probed
    /\ coLast.index > 0 =>
           (ChildRunsOf(coLast.index) # {} <=> coLast.probed /\ coLast.raised = "ok")

C23_Witness ==
    /\ company_ids = Some(<<" ", "A", " ">>)
    /\ coLast.index = 2
    /\ coLast.id = <<"A">>
    /\ ChildRunsOf(2) # {}
    /\ coProbes = <<[index |-> 2, id |-> <<"A">>]>>

\* C24: general_ledger_entries filters postingDate from start_date when its
\* starting timestamp is the configured start_date, and otherwise from the
\* first day of the month report_periods - 1 months before this month (3 when
\* not configured), whatever the bookmark; general_ledger_entries_incremental
\* always filters lastModifiedDateTime from its starting timestamp
C24_RequestWindow ==
    upParams # None =>
        LET filter == upParams[1]["$filter"]
            periods == IF upPeriods = None THEN 3 ELSE upPeriods[1]
            month == upToday[1].mi - (periods - 1)
        IN  IF upStream = "general_ledger_entries"
            THEN /\ filter.key = "postingDate"
                 /\ IF upStarting = upStartDate
                    THEN filter.gt = [Y |-> upStartDate[1].mi \div 12,
                                      M |-> (upStartDate[1].mi % 12) + 1,
                                      D |-> upStartDate[1].d, h |-> upStartDate[1].h]
                    ELSE filter.gt = [Y |-> month \div 12, M |-> (month % 12) + 1,
                                      D |-> 1, h |-> 0]
            ELSE /\ filter.key = "lastModifiedDateTime"
                 /\ filter.gt = [Y |-> upStarting[1].mi \div 12,
                                 M |-> (upStarting[1].mi % 12) + 1,
                                 D |-> upStarting[1].d, h |-> upStarting[1].h]

C24_Witness ==
    /\ upStream = "general_ledger_entries"
    /\ upStarting # upStartDate
    /\ upPeriods = None
    /\ upToday = Some([mi |-> 2024 * 12, d |-> 15])
    /\ upParams[1]["$filter"].gt = [Y |-> 2023, M |-> 11, D |-> 1, h |-> 0]

HeldPartitions(state, s) ==
    /\ "bookmarks" \in DOMAIN state
    /\ s \in DOMAIN state.bookmarks
    /\ "partitions" \in DOMAIN state.bookmarks[s]
    /\ state.bookmarks[s].partitions # <<>>

\* C25: the state written has the partitions of gl_entries_dimensions cut to
\* an empty list when its bookmark held some, and the bookmark of every other
\* stream as it was; cutting what was written again changes nothing
C25_PartitionsTruncated ==
    stWritten # None =>
        LET written == stWritten[1] IN
        /\ DOMAIN written = DOMAIN stBefore
        /\ "bookmarks" \in DOMAIN stBefore =>
               /\ DOMAIN written.bookmarks = DOMAIN stBefore.bookmarks
               /\ \A s \in DOMAIN stBefore.bookmarks :
                      IF s = "gl_entries_dimensions" /\ HeldPartitions(stBefore, s)
                      THEN written.bookmarks[s].partitions = <<>>
                      ELSE written.bookmarks[s] = stBefore.bookmarks[s]
        /\ ~HeldPartitions(written, "gl_entries_dimensions")
        /\ tap_state = written
        /\ truncated_state(written) = written

C25_Witness ==
    /\ stWritten # None
    /\ HeldPartitions(stBefore, "gl_entries_dimensions")
    /\ HeldPartitions(stBefore, "general_ledger_entries")
    /\ HeldPartitions(stWritten[1], "general_ledger_entries")
    /\ stWritten[1].bookmarks["gl_entries_dimensions"] = [partitions |-> <<>>]

\* ------------------------------------- properties of the persisted document

\* C27: after a successful refresh the document written holds the
\* access_token and expires_in of that refresh (3600 when the response gives
\* none) and expires = request time + expires_in, never a value an earlier
\* refresh computed
C27_PersistedExpiry ==
    (pc = "idle" /\ outcome.kind = "ok") =>
        LET body == token_response.body
            granted == IF "expires_in" \in DOMAIN body THEN body["expires_in"] ELSE Some(3600)
        IN  /\ configFile["access_token"] = body["access_token"]
            /\ "expires_in" \in DOMAIN configFile
            /\ configFile["expires_in"] = granted
            /\ "expires" \in DOMAIN configFile
            /\ configFile["expires"] = request_time + granted[1]

SameDocument(a, b) == DOMAIN a = DOMAIN b /\ \A k \in DOMAIN a : a[k] = b[k]

\* C28: at every instant the file holds the complete document of before the
\* refresh or the complete document of after it, also when the process is
\* stopped while it writes; the refresh_token is never lost
C28_AtomicRewrite ==
    /\ durable.complete
    /\ SameDocument(durable.doc, wOld) \/ SameDocument(durable.doc, wNew)
    /\ "refresh_token" \in DOMAIN durable.doc

\* C29: no log line of update_access_token shows a refresh_token or an
\* access_token in full
C29_NoSecretInLogs ==
    \A k \in DOMAIN logged :
        logged[k].line \in {100, 156, 182, 183} =>
            logged[k].shows \notin AccessTokens \cup RefreshTokens \cup {"a0", "r0"}

VendorSyncOf(k) ==
    \E s \in DOMAIN ddSyncs :
        ddSyncs[s].record = k /\ ddSyncs[s].child = "vendor_ledger_entries"

DimensionSyncsOf(k) ==
    {s \in DOMAIN ddSyncs :
        ddSyncs[s].record = k /\ ddSyncs[s].child = "gl_entries_dimensions"}

\* C31: a stream object starts with an empty dedup set: the first record of
\* an object that carries a document number has its vendor_ledger_entries
\* sync, whatever the objects constructed before it have synced
C31_FreshDedupSet ==
    "vendor_ledger_entries" \in Range(child_streams(ddParent)) \cap ddSelected =>
        \A k \in DOMAIN ddRecords :
            (\A j \in 1 .. k - 1 :
                ddRecords[j].object = ddRecords[k].object
                    => ddRecords[j].gl_doc_no # ddRecords[k].gl_doc_no)
            => VendorSyncOf(k)

\* C32: a selected child other than vendor_ledger_entries is synced once for
\* every record of the parent, also when the document number of the record
\* was seen before
C32_OtherChildrenEveryRecord ==
    \A child \in (Range(child_streams(ddParent)) \cap ddSelected)
                    \ {"vendor_ledger_entries"} :
        \A k \in DOMAIN ddRecords :
            Cardinality({s \in DOMAIN ddSyncs :
                            ddSyncs[s].record = k /\ ddSyncs[s].child = child}) = 1

C32_Witness ==
    /\ ddParent = "general_ledger_entries"
    /\ "gl_entries_dimensions" \in ddSelected
    /\ Len(ddRecords) = 2
    /\ ddRecords[1].gl_doc_no = ddRecords[2].gl_doc_no
    /\ ddRecords[2].gl_doc_no \in synced_doc_nos
    /\ Cardinality(DimensionSyncsOf(2)) = 1

\* C33: vendor_ledger_entries is synced for a record exactly when no earlier
\* record, of whatever company, carried its document number
C33_KeyIsDocumentNumber ==
    "vendor_ledger_entries" \in Range(child_streams(ddParent)) \cap ddSelected =>
        \A k \in DOMAIN ddRecords :
            VendorSyncOf(k) <=>
                \A j \in 1 .. k - 1 : ddRecords[j].gl_doc_no # ddRecords[k].gl_doc_no

C33_Witness ==
    /\ "vendor_ledger_entries" \in Range(child_streams(ddParent)) \cap ddSelected
    /\ Len(ddRecords) = 2
    /\ ddRecords[1].gl_doc_no = ddRecords[2].gl_doc_no
    /\ ddRecords[1].company_id = "c1"
    /\ ddRecords[2].company_id = "c2"
    /\ VendorSyncOf(1)
    /\ ~VendorSyncOf(2)

\* C34: a refresh that fails changes nothing: no step of a call of
\* update_access_token that has not succeeded changes the access_token,
\* expires_in or last_refreshed held, the config of the tap or the config file
C34_FailedRefreshChangesNothing ==
    [][outcome'.kind \in {"running", "failed", "no_refresh_token"}
          => UNCHANGED <<access_token, expires_in, last_refreshed, tapConfig,
                         configFile>>]_vars

\* a refresh failed after an earlier one succeeded, and what that one stored
\* is still there
C34_Witness ==
    /\ outcome.kind = "failed"
    /\ completed = 1
    /\ refreshes = 2
    /\ access_token = Some("a1")
    /\ Get(tapConfig, "access_token") = Some("a1")
    /\ configFile = tapConfig

\* the chunks whose request with the expansion and whose request without it
\* both failed
FailedChunks ==
    {glLog[k].ids : k \in {j \in DOMAIN glLog : glLog[j].kind = "plain" /\ ~glLog[j].ok}}

\* C35: a chunk whose two requests both failed gives no record: nothing is
\* raised, the fallback returns, and what it returns holds none of the ids
\* of the chunk
C35_FailedChunkDropped ==
    \A ids \in FailedChunks :
        /\ glRaised = "none"
        /\ glPc \in {"batches", "returned"}
        /\ \A e \in DOMAIN all_gls : all_gls[e].id \notin Range(ids)
        /\ glPc = "returned" =>
              /\ glResult # None
              /\ \A e \in DOMAIN glResult[1].value :
                     glResult[1].value[e].id \notin Range(ids)

\* of the two chunks of a page of 201 ids the first failed twice and the
\* second is all that is returned
C35_Witness ==
    /\ glPc = "returned"
    /\ Len(gl_ids) = 201
    /\ FailedChunks = {batch(gl_ids, 0)}
    /\ glResult # None
    /\ Len(glResult[1].value) = 1
    /\ glResult[1].value[1].id = gl_ids[201]

\* C36: the request for the next page carries the aid and the $skiptoken of
\* the continuation link, whatever characters they hold
C36_PageTokenRoundTrip ==
    tkParams # None =>
        /\ Some(tkParams[1].aid) = tkAid
        /\ Some(tkParams[1].skiptoken) = tkSkip

\* C37: the page just processed gave a token exactly when its body holds a
\* continuation link with an aid and a $skiptoken that are not empty; a link
\* that lacks one of them ends request_records as the last page does,
\* without an error
C37_TokenIffBothParameters ==
    (resp # None /\ pagePc \in {"request", "done", "error"}) =>
        LET link == resp[1].nextLink
            both == /\ link # None
                    /\ link[1].aid # <<>>
                    /\ link[1].skiptoken # <<>>
        IN  /\ (next_page_token # None) <=> both
            /\ (link # None /\ ~both) => pagePc = "done"

\* the first page announces a further page with a link that has no
\* $skiptoken, and the run ends with the server's second page not asked for
C37_Witness ==
    /\ pagePc = "done"
    /\ Len(script) = 2
    /\ Len(pageRequests) = 1
    /\ resp = Some(script[1])
    /\ script[1].nextLink = Some([aid |-> <<"x">>, skiptoken |-> <<>>])
    /\ emitted = script[1].value

\* the rows of the first n answers of the server
RECURSIVE RowsFetched(_)
RowsFetched(n) == IF n = 0 THEN <<>> ELSE RowsFetched(n - 1) \o ServerPage(n).value

\* C38: when the loop error is raised, what was emitted is the rows of every
\* page fetched, the page with the repeated token included, each page once
C38_ErrorAfterRows ==
    pagePc = "error" => emitted = RowsFetched(Len(pageRequests))

\* the second page repeats the token of the first; its two rows are emitted
C38_Witness ==
    /\ pagePc = "error"
    /\ Len(pageRequests) = 2
    /\ next_page_token = previous_token
    /\ ServerPage(2).value = <<2, 1>>
    /\ ServerPage(1).value = <<1>>
    /\ emitted = <<1, 2, 1>>

\* the seconds slept between the first POST and the retry
Waited == IF slept = <<>> THEN 0 ELSE slept[1]

\* C39: after a refresh that succeeded, last_refreshed is the instant taken
\* before the first POST, the expires persisted is that instant plus
\* expires_in, and it precedes the real expiry, counted from the answer that
\* brought the token, by the time waited at least
C39_IssueTimeBeforeFirstPost ==
    outcome.kind = "ok" =>
        /\ last_refreshed = Some(request_time)
        /\ Get(tapConfig, "expires") = Some(request_time + expires_in[1])
        /\ Get(configFile, "expires") = Some(request_time + expires_in[1])
        /\ request_time + expires_in[1] + Waited
               <= responses[Len(responses)].at + expires_in[1]

\* the last call of the template's update_access_token was answered 2xx
\* with an access_token and no refresh_token
TemplateNoRefreshToken ==
    /\ tplResp # None
    /\ ~raise_for_status(tplResp[1])
    /\ "access_token" \in DOMAIN tplResp[1].body
    /\ "refresh_token" \notin DOMAIN tplResp[1].body

\* C40: the template authenticator finds its token valid only after a
\* refresh in this process and, with an expires_in that is not zero, for
\* less than expires_in seconds after it; a token response without
\* refresh_token makes update_access_token raise with the access_token held
\* and the access_token of the config replaced and the config file as it was
C40_TemplateAuthenticator ==
    /\ (tplCheck # None /\ tplCheck[1].valid) =>
          /\ tplCheck[1].stamped > 0
          /\ tplCheck[1].last_refreshed # None
          /\ TruthyInt(tplCheck[1].expires_in) =>
                tplCheck[1].at - tplCheck[1].last_refreshed[1] < tplCheck[1].expires_in[1]
    /\ TemplateNoRefreshToken =>
          /\ tplOutcome = "KeyError refresh_token"
          /\ tplAuth.access_token = Some(tplResp[1].body["access_token"])
          /\ Get(tplAuth.config, "access_token") = Some(tplResp[1].body["access_token"])
          /\ tplAuth.file = tplBefore.file

\* a response without refresh_token left the new token in memory and the
\* old one in the file, and the token was found valid afterwards
C40_Witness ==
    /\ TemplateNoRefreshToken
    /\ tplAuth.access_token = Some("a1")
    /\ Get(tplAuth.file, "access_token") = Some("a0")
    /\ tplCheck # None
    /\ tplCheck[1].valid
    /\ tplCheck[1].stamped = 1
    /\ tplCheck[1].at = 5

====
